---- MODULE Spec2Model ----
(***************************************************************************)
(* RAG ingestion and retrieval of the n8n workflow builder: runIngestion   *)
(* (documentation chunks, origin A), runTemplateIngestion (workflow        *)
(* templates, origin B), the sync ledger and the similarity retrieval.     *)
(*                                                                         *)
(* Strings whose only observable property here is their length (markdown   *)
(* sections, descriptions, parameter summaries) are represented by that    *)
(* length; a text is the sequence of its labelled parts.                   *)
(***************************************************************************)
EXTENDS Integers, Sequences, FiniteSets, Bags, TLC

VARIABLES
    \* ---- environment
    dbUrlSet,        \* process.env.DATABASE_URL(_UNPOOLED) is set
    faults,          \* failures the environment may still inject
    upDocs,          \* n8n-docs repository: node folder -> markdown (or Null)
    upSrc,           \* n8n repository: node type -> parsed .node.ts (or Null)
    upTpl,           \* templates API: search pages and details
    \* ---- persisted state
    nodeDocs,        \* table node_docs (a bag of rows: no unique constraint)
    wfTemplates,     \* table workflow_templates (a bag of rows)
    syncLog,         \* table sync_log (in insertion order)
    \* ---- runIngestion
    pc, errors, nodesProcessed, chunksCreated, templatesProcessed,
    allChunks, embeddings, idx, thrown, result,
    \* ---- runTemplateIngestion
    tpc, tErrors, tProcessed, summaries, details, records, tEmbeddings,
    tIdx, tThrown, tResult,
    \* ---- retrieval
    lastQuery,
    \* ---- calls of generateEmbeddings and fetchWithRetry, the status query
    embedCall, fetchCall, statusReply,
    \* ---- one call of buildFlowDescription, step by step
    walkCall,
    \* ---- the requests served by /api/sync-docs
    route,
    \* ---- one call of fetchTemplateList, fetchAllTemplateDetails,
    \*      fetchRawFile and createNodeChunks
    listCall, detailCall, rawCall, chunkCall,
    \* ---- the display-info cache of the dynamic registry and its calls
    registry,
    \* ---- two ingestion runs that overlap on one key
    race,
    \* ---- the execution poller of the workflow store
    poller,
    \* ---- history (what happened, recorded for the properties)
    hist

envVars   == <<dbUrlSet, faults, upDocs, upSrc, upTpl>>
storeVars == <<nodeDocs, wfTemplates, syncLog>>
runVars   == <<pc, errors, nodesProcessed, chunksCreated, templatesProcessed,
               allChunks, embeddings, idx, thrown, result>>
tplVars   == <<tpc, tErrors, tProcessed, summaries, details, records,
               tEmbeddings, tIdx, tThrown, tResult>>
sideVars  == <<registry, race, poller>>
unitVars  == <<walkCall, route, listCall, detailCall, rawCall, chunkCall, sideVars>>
callVars  == <<lastQuery, embedCall, fetchCall, statusReply, unitVars>>
mainVars  == <<envVars, storeVars, runVars, tplVars, hist,
               lastQuery, embedCall, fetchCall, statusReply, sideVars>>
vars      == <<envVars, storeVars, runVars, tplVars, callVars, hist>>

\* null for a value that is otherwise a record
Null == [null |-> TRUE]
\* null / undefined for a value that is otherwise a string
NoString == ""

\* ---- bounds of the model
MaxRuns   == 2      \* ingestion runs in one behaviour
MaxFaults == 1      \* injected failures in one behaviour

\* ---- program constants
MAX_CONTENT_LENGTH          == 2000
TEMPLATE_MAX_CONTENT_LENGTH == 3000
CONCURRENCY                 == 5
ERR_SLICE                   == 5

\* "\n…[truncated]".length
TruncatedSuffix == "\n.[truncated]"

Min(a, b) == IF a < b THEN a ELSE b
Max(a, b) == IF a > b THEN a ELSE b

RECURSIVE SumSeq(_)
SumSeq(s) == IF s = <<>> THEN 0 ELSE Head(s) + SumSeq(Tail(s))

\* parts.join(sep).length
JoinLength(lens, sepLen) ==
    IF lens = <<>> THEN 0 ELSE SumSeq(lens) + sepLen * (Len(lens) - 1)

Part(label, body) == [label |-> label, len |-> Len(label) + body]

\* a text built as parts.join("\n")
JoinParts(parts) ==
    [parts |-> [k \in 1..Len(parts) |-> parts[k].label],
     len   |-> JoinLength([k \in 1..Len(parts) |-> parts[k].len], 1)]

(***************************************************************************)
(* Origin A: markdown parsing helpers and chunking                         *)
(***************************************************************************)

\* A markdown file: len is content.length; body the length without the
\* frontmatter; lastPeriod the index of the last "." in the first 500
\* characters of the body (-1: none); the other fields are the lengths of
\* the regex matches (0: no match).
Doc(len, body, lastPeriod, paramHeader, paramTable, credHeader, exHeader, exCode) ==
    [len |-> len, body |-> body, lastPeriod |-> lastPeriod,
     paramHeader |-> paramHeader, paramTable |-> paramTable,
     credHeader |-> credHeader, exHeader |-> exHeader, exCode |-> exCode]

\* extractMarkdownSection(content, 0, maxLength).length
extractMarkdownSection(content, maxLength) ==
    IF 2 * content.lastPeriod > maxLength
    THEN Min(content.lastPeriod + 1, Min(content.body, maxLength))
    ELSE Min(content.body, maxLength)

\* length of the returned section, 0 for null
extractParameterSection(content) ==
    IF content.paramHeader > 0 THEN Min(content.paramHeader, 2000)
    ELSE IF content.paramTable > 0 THEN Min(content.paramTable, 1500)
    ELSE 0

extractCredentialSection(content) ==
    IF content.credHeader > 0 THEN Min(content.credHeader, 1000) ELSE 0

extractExamplesSection(content) ==
    IF content.exHeader > 0 THEN Min(content.exHeader, 1500)
    ELSE IF content.exCode > 0 THEN Min(content.exCode, 1500)
    ELSE 0

\* nodeType.split(".").pop()
LastSegment(nodeType) ==
    CASE nodeType = "n8n-nodes-base.slack" -> "slack"
      [] nodeType = "n8n-nodes-base.cron"  -> "cron"
      [] OTHER -> nodeType

\* credentials.join(", ").length
CredentialsJoinLength(credentials) ==
    JoinLength([k \in 1..Len(credentials) |-> Len(credentials[k])], 2)

Truthy(docContent) == docContent # Null /\ docContent.len > 0

Chunk(nodeType, chunkType, parts) ==
    [nodeType |-> nodeType, chunkType |-> chunkType, content |-> JoinParts(parts)]

\* a credentials chunk pushed without looking at what it holds
PushCredentialsAlways(credParts) == TRUE

\* if (credParts.length > 1) chunks.push(...)
PushCredentials(credParts) == Len(credParts) > 1

createNodeChunks(nodeType, docContent, sourceInfo) ==
    LET displayName == IF sourceInfo # Null THEN sourceInfo.displayName
                       ELSE LastSegment(nodeType)
        typeVersion == IF sourceInfo # Null THEN sourceInfo.defaultVersion ELSE 1
        category    == IF sourceInfo # Null THEN sourceInfo.category ELSE "action"
        hasDoc      == Truthy(docContent)
        hasCreds    == sourceInfo # Null /\ Len(sourceInfo.credentials) > 0
        hasProps    == sourceInfo # Null /\ sourceInfo.properties > 0
        version     == ToString(typeVersion)
        firstSection == IF hasDoc THEN extractMarkdownSection(docContent, 500) ELSE 0
        paramSection == IF hasDoc THEN extractParameterSection(docContent) ELSE 0
        credSection  == IF hasDoc THEN extractCredentialSection(docContent) ELSE 0
        examplesSection == IF hasDoc THEN extractExamplesSection(docContent) ELSE 0
        overviewParts ==
            << Part("Node: ", Len(displayName)),
               Part("Type: ", Len(nodeType)),
               Part("Latest Version: ", Len(version)),
               Part("Category: ", Len(category)) >>
            \o (IF sourceInfo # Null /\ sourceInfo.description > 0
                THEN << Part("Description: ", sourceInfo.description) >> ELSE <<>>)
            \o (IF hasCreds
                THEN << Part("Required Credentials: ",
                             CredentialsJoinLength(sourceInfo.credentials)) >>
                ELSE <<>>)
            \o (IF firstSection > 0
                THEN << Part("\nDocumentation:\n", firstSection) >> ELSE <<>>)
        head == Len(displayName) + Len(nodeType)
        paramParts ==
            << Part("Parameters for  () v:", head + Len(version)) >>
            \o (IF hasProps
                THEN << Part("\nSource parameters:\n", sourceInfo.properties) >>
                ELSE <<>>)
            \o (IF paramSection > 0
                THEN << Part("\nDocumented parameters:\n", paramSection) >>
                ELSE <<>>)
        credParts ==
            << Part("Credentials for  ():", head) >>
            \o (IF hasCreds
                THEN << Part("Credential types: ",
                             CredentialsJoinLength(sourceInfo.credentials)) >>
                ELSE <<>>)
            \o (IF credSection > 0 THEN << Part("\n", credSection) >> ELSE <<>>)
        examplesParts ==
            << Part("Examples for  () v:\n", head + Len(version) + examplesSection) >>
    IN  << Chunk(nodeType, "overview", overviewParts) >>
        \o (IF hasProps \/ hasDoc
            THEN << Chunk(nodeType, "parameters", paramParts) >> ELSE <<>>)
        \o (IF (hasCreds \/ hasDoc) /\ PushCredentials(credParts)
            THEN << Chunk(nodeType, "credentials", credParts) >> ELSE <<>>)
        \o (IF hasDoc /\ examplesSection > 0
            THEN << Chunk(nodeType, "examples", examplesParts) >> ELSE <<>>)

(***************************************************************************)
(* Upstream data the model draws from                                      *)
(***************************************************************************)

Slack == "n8n-nodes-base.slack"
Cron  == "n8n-nodes-base.cron"

\* order in which the tree listings return the node files
NodeOrder == << Slack, Cron >>
NodeTypes == { NodeOrder[k] : k \in 1..Len(NodeOrder) }

ChunkTypes == { "overview", "parameters", "credentials", "examples" }

\* a doc with a "## Parameters" and a "## Examples" section
DocExample == Doc(900, 850, 300, 400, 0, 0, 200, 0)
\* a long doc: a parameter section above the 2000 cap, a credentials section
DocLong    == Doc(6000, 6000, -1, 2600, 0, 300, 0, 0)
\* a file that exists and is empty
DocEmpty   == Doc(0, 0, -1, 0, 0, 0, 0, 0)

SrcSlack == [displayName |-> "Slack", defaultVersion |-> 2, description |-> 40,
             category |-> "output",
             credentials |-> << "slackApi", "slackOAuth2Api" >>,
             properties |-> 300]
SrcCron  == [displayName |-> "Cron", defaultVersion |-> 1, description |-> 0,
             category |-> "trigger", credentials |-> <<>>, properties |-> 0]

NoNodes == [n \in NodeTypes |-> Null]

(***************************************************************************)
(* Origin B: template list, detail flattening, record building             *)
(***************************************************************************)

TriggerTypes == { "n8n-nodes-base.webhook", "n8n-nodes-base.scheduleTrigger",
                  "@n8n/n8n-nodes-langchain.chatTrigger" }
StickyTypes  == { "n8n-nodes-base.stickyNote" }

\* type.toLowerCase().includes("trigger") || ...includes("webhook")
IsTriggerLike(type) == type \in TriggerTypes
\* type.includes("stickyNote")
IsStickyNote(type) == type \in StickyTypes

RECURSIVE Flatten(_)
Flatten(ss) == IF ss = <<>> THEN <<>> ELSE Head(ss) \o Flatten(Tail(ss))

RECURSIVE Unique(_, _)
\* [...new Set(list)]: first occurrences, in order
Unique(list, seen) ==
    IF list = <<>> THEN <<>>
    ELSE IF Head(list) \in seen THEN Unique(Tail(list), seen)
    ELSE << Head(list) >> \o Unique(Tail(list), seen \cup { Head(list) })

RECURSIVE SelectSeqBy(_, _)
SelectSeqBy(list, keep) ==
    IF list = <<>> THEN <<>>
    ELSE (IF Head(list) \in keep THEN << Head(list) >> ELSE <<>>)
         \o SelectSeqBy(Tail(list), keep)

\* One search phase of fetchTemplateList: pages 1..maxPages, stopping at an
\* empty page or at the page whose request fails (failPage, 0: none fails).
RECURSIVE FetchPhase(_, _, _, _, _)
FetchPhase(pages, page, maxPages, failPage, acc) ==
    IF page > maxPages \/ page = failPage THEN acc
    ELSE LET workflows == IF page <= Len(pages) THEN pages[page] ELSE <<>>
             seenIds   == { acc[k].id : k \in 1..Len(acc) }
             fresh     == Unique([k \in 1..Len(workflows) |-> workflows[k].id], seenIds)
             byId(id)  == workflows[CHOOSE k \in 1..Len(workflows) :
                              /\ workflows[k].id = id
                              /\ \A m \in 1..(k-1) : workflows[m].id # id]
         IN  IF workflows = <<>> THEN acc
             ELSE FetchPhase(pages, page + 1, maxPages, failPage,
                             acc \o [k \in 1..Len(fresh) |-> byId(fresh[k])])

AiPages      == 4
GeneralPages == 2

\* a general phase that starts with its own, empty set of seen ids
fetchTemplateListSeenPerPhase(api, aiFail, generalFail) ==
    FetchPhase(api.aiPages, 1, AiPages, aiFail, <<>>)
        \o FetchPhase(api.generalPages, 1, GeneralPages, generalFail, <<>>)

fetchTemplateList(api, aiFail, generalFail) ==
    LET phase1 == FetchPhase(api.aiPages, 1, AiPages, aiFail, <<>>)
    IN  FetchPhase(api.generalPages, 1, GeneralPages, generalFail, phase1)

\* fetchTemplateDetail on a 2xx response: the doubly nested payload flattened
FlattenDetail(templateId, data) ==
    IF data = Null \/ data.workflow = Null THEN Null
    ELSE IF data.workflow.workflow = Null
            \/ data.workflow.workflow.nodes = <<>> THEN Null
    ELSE [id |-> data.workflow.id,
          name |-> data.workflow.name,
          description |-> data.workflow.description,
          categories |-> data.workflow.categories,
          workflowNodes |-> data.workflow.workflow.nodes,
          workflowConnections |->
              IF data.workflow.workflow.connections = Null
              THEN [n \in {} |-> Null]
              ELSE data.workflow.workflow.connections]

\* `${nodeName} (sub-nodes: ${subNodes.join(", ")})`
FlowEntry(nodeName, subNodes) == [node |-> nodeName, sub |-> subNodes]

FlowEntryLength(e) ==
    IF e.sub = <<>> THEN Len(e.node)
    ELSE Len(e.node) + Len(" (sub-nodes: )")
         + JoinLength([k \in 1..Len(e.sub) |-> Len(e.sub[k])], 2)

MaxDepth == 10

\* a walk guarded by the depth cap alone
ShouldEnterAnyDepthAllowed(visited, nodeName, depth) == depth <= MaxDepth

\* if (visited.has(nodeName) || depth > 10) return;
ShouldEnter(visited, nodeName, depth) == nodeName \notin visited /\ depth <= MaxDepth

RECURSIVE walk(_, _, _, _)
RECURSIVE walkTargets(_, _, _, _)
\* st = [visited, flowParts]
walk(connections, st, nodeName, depth) ==
    IF ~ShouldEnter(st.visited, nodeName, depth) THEN st
    ELSE LET st1 == [visited |-> st.visited \cup { nodeName },
                     flowParts |-> Append(st.flowParts, FlowEntry(nodeName, <<>>))]
         IN  IF nodeName \notin DOMAIN connections THEN st1
             ELSE LET conn == connections[nodeName]
                      st2  == walkTargets(connections, st1, Flatten(conn.main), depth + 1)
                      last == Len(st2.flowParts)
                  IN  IF conn.ai # <<>>
                      THEN [st2 EXCEPT !.flowParts[last] = FlowEntry(nodeName, conn.ai)]
                      ELSE st2

walkTargets(connections, st, targets, depth) ==
    IF targets = <<>> THEN st
    ELSE walkTargets(connections, walk(connections, st, Head(targets), depth),
                     Tail(targets), depth)

\* the flowParts of buildFlowDescription; <<>> when it returns null
buildFlowDescription(nodes, connections) ==
    LET triggers == { k \in 1..Len(nodes) : IsTriggerLike(nodes[k].type) }
    IN  IF triggers = {} THEN <<>>
        ELSE LET first == CHOOSE k \in triggers : \A m \in triggers : k <= m
                 st == walk(connections, [visited |-> {}, flowParts |-> <<>>],
                            nodes[first].name, 0)
             IN  IF Len(st.flowParts) > 1 THEN st.flowParts ELSE <<>>

\* content.slice(0, max) + "\n…[truncated]" when content.length > max
TruncateContent(content, max) ==
    IF content.len > max
    THEN [parts |-> content.parts, len |-> max + Len(TruncatedSuffix)]
    ELSE content

\* a payload cleaned like the content: annotation nodes left out
WorkflowJsonWithoutNotes(detail) ==
    [nodes |-> SelectSeq(detail.workflowNodes, LAMBDA n : ~IsStickyNote(n.type)),
     connections |-> detail.workflowConnections]

\* const workflowJson = { nodes: detail.workflowNodes, connections: ... }
WorkflowJson(detail) ==
    [nodes |-> detail.workflowNodes, connections |-> detail.workflowConnections]

buildTemplateRecord(detail, summary) ==
    IF detail.workflowNodes = <<>> THEN Null
    ELSE
    LET nodes == detail.workflowNodes
        name == IF detail.name # "" THEN detail.name
                ELSE "Template " \o ToString(detail.id)
        description ==
            IF detail.description > 0 THEN detail.description
            ELSE IF summary # Null THEN summary.description ELSE 0
        category ==
            IF detail.categories # <<>> THEN detail.categories[1]
            ELSE IF summary # Null THEN summary.category ELSE NoString
        functional == { k \in 1..Len(nodes) : ~IsStickyNote(nodes[k].type) }
        kept == SelectSeqBy([k \in 1..Len(nodes) |-> k], functional)
        uniqueNodeTypes == Unique([k \in 1..Len(kept) |-> nodes[kept[k]].type], {})
        nodeDisplayNames == [k \in 1..Len(kept) |-> nodes[kept[k]].name]
        flow == buildFlowDescription(nodes, detail.workflowConnections)
        contentParts ==
            << Part("Template: ", Len(name)) >>
            \o (IF category # NoString THEN << Part("Category: ", Len(category)) >> ELSE <<>>)
            \o (IF description > 0 THEN << Part("Description: ", description) >> ELSE <<>>)
            \o << Part("Nodes used: ",
                       JoinLength([k \in 1..Len(kept) |-> Len(nodeDisplayNames[k])], 2)),
                  Part("Node types: ",
                       JoinLength([k \in 1..Len(uniqueNodeTypes) |->
                                      Len(uniqueNodeTypes[k])], 2)) >>
            \o (IF flow # <<>>
                THEN << Part("Flow: ",
                             JoinLength([k \in 1..Len(flow) |-> FlowEntryLength(flow[k])], 4)) >>
                ELSE <<>>)
    IN  [templateId |-> detail.id,
         name |-> name,
         category |-> category,
         nodeTypes |-> uniqueNodeTypes,
         workflowJson |-> WorkflowJson(detail),
         content |-> TruncateContent(JoinParts(contentParts), TEMPLATE_MAX_CONTENT_LENGTH)]

\* ---- templates API data

Summary(id, description, category) ==
    [id |-> id, description |-> description, category |-> category]

\* GET /templates/workflows/<id>: { workflow: { ..., workflow: { nodes, connections } } }
DetailResponse(id, name, description, categories, nodes, connections) ==
    [workflow |-> [id |-> id, name |-> name, description |-> description,
                   categories |-> categories,
                   workflow |-> [nodes |-> nodes, connections |-> connections]]]

Node(name, type) == [name |-> name, type |-> type]
Conn(main, ai) == [main |-> main, ai |-> ai]

AgentNodes ==
    << Node("Chat Trigger", "@n8n/n8n-nodes-langchain.chatTrigger"),
       Node("Note", "n8n-nodes-base.stickyNote"),
       Node("AI Agent", "@n8n/n8n-nodes-langchain.agent"),
       Node("OpenAI Chat Model", "@n8n/n8n-nodes-langchain.lmChatOpenAi") >>
AgentConnections ==
    ( "Chat Trigger" :> Conn(<< << "AI Agent" >> >>, <<>>) )
    @@ ( "OpenAI Chat Model" :> Conn(<<>>, << "AI Agent" >>) )

HookNodes ==
    << Node("Webhook", "n8n-nodes-base.webhook"),
       Node("Slack", "n8n-nodes-base.slack") >>
\* two nodes connected to each other
HookConnections ==
    ( "Webhook" :> Conn(<< << "Slack" >> >>, <<>>) )
    @@ ( "Slack" :> Conn(<< << "Webhook" >> >>, <<>>) )

EmptyConnections == [n \in {} |-> Conn(<<>>, <<>>)]

\* the details the API serves, by template id
DetailOf(id) ==
    CASE id = 101 -> DetailResponse(101, "Agent", 120, << "AI" >>, AgentNodes, AgentConnections)
      [] id = 102 -> DetailResponse(102, "Hook", 3200, <<>>, HookNodes, HookConnections)
      [] id = 103 -> DetailResponse(103, "Empty", 10, <<>>, <<>>, EmptyConnections)
      [] id = 207 -> DetailResponse(207, "Single", 30, <<>>, AgentNodes, Null)
      [] OTHER    -> DetailResponse(id, "Hook", 30, <<>>, HookNodes, HookConnections)

ApiNone  == [aiPages |-> <<>>, generalPages |-> <<>>]
ApiSmall == [aiPages |-> << << Summary(101, 80, "AI") >> >>,
             generalPages |-> << << Summary(101, 80, "AI"), Summary(103, 0, NoString) >> >>]
ApiLong  == [aiPages |-> <<>>,
             generalPages |-> << << Summary(102, 0, "Sales") >>, << Summary(101, 80, "AI") >> >>]
\* more templates than one concurrent batch of detail requests
ApiMany  == [aiPages |-> << << Summary(201, 0, "AI"), Summary(202, 0, "AI"),
                              Summary(203, 0, "AI") >> >>,
             generalPages |-> << << Summary(202, 0, NoString), Summary(204, 0, NoString),
                                   Summary(205, 0, NoString), Summary(206, 0, NoString),
                                   Summary(207, 0, NoString) >> >>]

\* ---- the upstream states the environment moves between
UpEmptyDoc == [docs |-> (Cron :> DocEmpty) @@ NoNodes, src |-> NoNodes, tpl |-> ApiNone]
UpExample  == [docs |-> (Slack :> DocExample) @@ NoNodes, src |-> NoNodes, tpl |-> ApiSmall]
UpLong     == [docs |-> (Slack :> DocLong) @@ NoNodes,
               src  |-> (Slack :> SrcSlack) @@ (Cron :> SrcCron) @@ NoNodes,
               tpl  |-> ApiLong]
UpMany     == [docs |-> NoNodes, src |-> NoNodes, tpl |-> ApiMany]

Scenarios == { UpEmptyDoc, UpExample, UpLong }

(***************************************************************************)
(* Embedding provider, store and ledger                                    *)
(***************************************************************************)

VectorList == << <<1, 0>>, <<0, 1>>, <<3, 4>>, <<4, 3>> >>
Vectors    == { VectorList[k] : k \in 1..Len(VectorList) }

\* the provider's vector for a text: a fixed function of the text
Embed(content) == VectorList[(content.len % Len(VectorList)) + 1]

BATCH_SIZE == 512

\* embedMany({ values }): one vector per value, in the order of the values
embedMany(values) == [k \in 1..Len(values) |-> Embed(values[k])]

\* texts.slice(i, i + BATCH_SIZE)
BatchAt(texts, i) == SubSeq(texts, i + 1, Min(i + BATCH_SIZE, Len(texts)))

\* the number of embedMany calls generateEmbeddings makes for the texts
NumBatches(texts) == (Len(texts) + BATCH_SIZE - 1) \div BATCH_SIZE

RECURSIVE EmbedLoopSliceToBatchSize(_, _, _)
\* the loop with texts.slice(i, BATCH_SIZE): every batch after the first is empty
EmbedLoopSliceToBatchSize(texts, i, allEmbeddings) ==
    IF i >= Len(texts) THEN allEmbeddings
    ELSE EmbedLoopSliceToBatchSize(texts, i + BATCH_SIZE,
            allEmbeddings \o embedMany(SubSeq(texts, i + 1, Min(BATCH_SIZE, Len(texts)))))

RECURSIVE EmbedLoop(_, _, _)
\* for (let i = 0; i < texts.length; i += BATCH_SIZE) allEmbeddings.push(...)
EmbedLoop(texts, i, allEmbeddings) ==
    IF i >= Len(texts) THEN allEmbeddings
    ELSE EmbedLoop(texts, i + BATCH_SIZE, allEmbeddings \o embedMany(BatchAt(texts, i)))

generateEmbeddings(texts) == EmbedLoop(texts, 0, <<>>)

\* the rows of a bag for which the key function gives key
RowsWith(table, templateId) == { r \in BagToSet(table) : r.templateId = templateId }

\* DELETE FROM table WHERE key(row) = key
DeleteWhere(table, kept) == [r \in kept |-> table[r]]

\* an insert that reports success and stores nothing
InsertRowLost(table, row) == table

InsertRow(table, row) == table (+) SetToBag({ row })

DocKey(r) == << r.nodeType, r.chunkType >>
TplKey(r) == r.templateId

\* a delete whose WHERE compares node_type with the short node name: it
\* matches no stored row
DeleteNodeDocWrongColumn(table, chunk) ==
    DeleteWhere(table, { r \in BagToSet(table) :
                          DocKey(r) # << LastSegment(chunk.nodeType), chunk.chunkType >> })

\* a delete whose WHERE tests the chunk type for inequality: it removes the
\* node's other chunks and keeps the one about to be inserted
DeleteNodeDocOtherChunks(table, chunk) ==
    DeleteWhere(table, { r \in BagToSet(table) :
                          ~(r.nodeType = chunk.nodeType /\ r.chunkType # chunk.chunkType) })

\* a delete that clears the chunk type for every node before the insert
DeleteNodeDocByChunkType(table, chunk) ==
    DeleteWhere(table, { r \in BagToSet(table) : r.chunkType # chunk.chunkType })

DeleteNodeDoc(table, chunk) ==
    DeleteWhere(table, { r \in BagToSet(table) : DocKey(r) # DocKey(chunk) })

NodeDocRow(chunk, embedding) ==
    [nodeType |-> chunk.nodeType, chunkType |-> chunk.chunkType,
     content |-> TruncateContent(chunk.content, MAX_CONTENT_LENGTH),
     embedding |-> embedding]

DeleteTemplate(table, record) ==
    DeleteWhere(table, { r \in BagToSet(table) : TplKey(r) # record.templateId })

TemplateRow(record, embedding) ==
    [templateId |-> record.templateId, name |-> record.name,
     category |-> record.category, nodeTypes |-> record.nodeTypes,
     workflowJson |-> record.workflowJson, content |-> record.content,
     embedding |-> embedding]

\* a table without the constraint: no insert is rejected
NoUniqueConstraint(table, record) == FALSE

\* template_id is UNIQUE: the insert is rejected when a row with the id exists
UniqueViolation(table, record) == RowsWith(table, record.templateId) # {}

\* errors.slice(0, n)
Slice(list, n) == SubSeq(list, 1, Min(n, Len(list)))

\* logSync / logTemplateSync: one appended entry, or nothing when the write
\* fails (the failure is logged to the console and swallowed)
\* a ledger that keeps one row per source: the write replaces the source's
\* earlier entries
logSyncOneRowPerSource(log, written, source, status, count, error) ==
    IF written
    THEN Append(SelectSeq(log, LAMBDA e : e.source # source),
                [source |-> source, status |-> status,
                 nodesProcessed |-> count, error |-> error,
                 syncedAt |-> Len(log) + 1])
    ELSE log

\* syncedAt is defaultNow(): the clock advances between two writes
logSync(log, written, source, status, count, error) ==
    IF written
    THEN Append(log, [source |-> source, status |-> status,
                      nodesProcessed |-> count, error |-> error,
                      syncedAt |-> Len(log) + 1])
    ELSE log

StatusOf(errs) == IF errs = <<>> THEN "success" ELSE "error"

\* an entry of an errors list: the message and what it names
Err(msg, ref) == [msg |-> msg, ref |-> ref]

(***************************************************************************)
(* Environment: injected failures                                          *)
(***************************************************************************)

\* what a network or store call may do while failures remain to inject
Outcomes == IF faults > 0 THEN { "ok", "throw" } ELSE { "ok" }
Cost(out) == IF out = "throw" THEN 1 ELSE 0

\* a ledger write needs a configured store (getDbUnpooled throws otherwise)
Written(out) == dbUrlSet /\ out = "ok"

\* a logSync whose catch passes the failure on to its caller
LogSyncCatchRethrow(written) == IF written THEN "returned" ELSE "rethrown"

\* the try/catch around the insert of logSync and logTemplateSync: the
\* failure is printed, the call returns
LogSyncCatch(written) == "returned"

\* history: the ledger writes of this run that failed on a configured store
LedgerNoted(h, out) ==
    [h EXCEPT !.ledgerFaults = @ + (IF dbUrlSet THEN Cost(out) ELSE 0)]

\* history: the rows added to each table by the inserts of this run
NoInserts == [docs |-> 0, tpl |-> 0]

NoLogCalls == [source \in { "github-docs", "n8n-templates" } |-> 0]

\* history: logSync / logTemplateSync was called for the source in this run
LogCalled(h, source) == [h EXCEPT !.logCalls[source] = @ + 1]

(***************************************************************************)
(* runIngestion                                                            *)
(***************************************************************************)

\* where an exception thrown at a site of runIngestion / runTemplateIngestion
\* is caught
\* an embedding failure of origin A caught on the spot and skipped: the run
\* goes on to the templates without recording it
CatchTargetEmbedSkipped(site) ==
    CASE site = "embed"                   -> "templates"
      [] site = "setup"                   -> "catch"
      [] site \in { "tEmbed", "tSetup" }  -> "tCatch"
      [] site \in { "upsert", "tUpsert" } -> "record"
      [] OTHER -> "thrown"

\* an upsert loop without its per-record try: a failed delete or insert
\* reaches the catch-all of the function
CatchTargetUpsertUncaught(site) ==
    CASE site \in { "embed", "setup", "upsert" }     -> "catch"
      [] site \in { "tEmbed", "tSetup", "tUpsert" } -> "tCatch"
      [] OTHER -> "thrown"

\* the embedding call of origin A outside the try block
CatchTargetEmbedUncaught(site) ==
    CASE site = "setup"                   -> "catch"
      [] site \in { "tEmbed", "tSetup" }  -> "tCatch"
      [] site \in { "upsert", "tUpsert" } -> "record"
      [] OTHER -> "thrown"

CatchTarget(site) ==
    CASE site \in { "embed", "setup" }    -> "catch"
      [] site \in { "tEmbed", "tSetup" }  -> "tCatch"
      [] site \in { "upsert", "tUpsert" } -> "record"
      [] OTHER -> "thrown"

SyncResult(success, nodes, chunks, templates, errs) ==
    [success |-> success, nodesProcessed |-> nodes, chunksCreated |-> chunks,
     templatesProcessed |-> templates, errors |-> errs]

\* the normal return of runIngestion
ReturnResult(nodes, chunks, templates, errs) ==
    SyncResult(errs = <<>>, nodes, chunks, templates, errs)

\* a catch-all that returns success: false without recording the error
CatchResultNoPush(nodes, chunks, templates, errs, errMsg) ==
    [success |-> FALSE, nodesProcessed |-> nodes, chunksCreated |-> chunks,
     templatesProcessed |-> templates, errors |-> errs]

\* the return of the catch-all: errors.push(errMsg), success: false
CatchResult(nodes, chunks, templates, errs, errMsg) ==
    SyncResult(FALSE, nodes, chunks, templates, Append(errs, Err(errMsg, <<>>)))

\* [...docsMap.keys(), ...sourceMap.keys()] as a Set, in insertion order
AllNodeTypes(docsMap, sourceMap) ==
    LET docKeys == { n \in NodeTypes : docsMap[n] # Null }
        srcKeys == { n \in NodeTypes : sourceMap[n] # Null }
    IN  SelectSeqBy(NodeOrder, docKeys) \o SelectSeqBy(NodeOrder, srcKeys \ docKeys)

BuildAllChunks(docsMap, sourceMap) ==
    LET types == AllNodeTypes(docsMap, sourceMap)
    IN  Flatten([k \in 1..Len(types) |->
                    createNodeChunks(types[k], docsMap[types[k]], sourceMap[types[k]])])

StartRun ==
    /\ pc \in { "idle", "done" }
    /\ hist.runs < MaxRuns
    /\ pc' = "fetch"
    /\ errors' = <<>>
    /\ nodesProcessed' = 0
    /\ chunksCreated' = 0
    /\ templatesProcessed' = 0
    /\ result' = Null
    /\ hist' = [hist EXCEPT !.runs = @ + 1,
                            !.faultsAtStart = faults,
                            !.upAtStart = << upDocs, upSrc, upTpl >>,
                            !.prev = IF pc = "done"
                                     THEN [clean |-> faults = hist.faultsAtStart,
                                           up |-> hist.upAtStart,
                                           nodeDocs |-> nodeDocs,
                                           wfTemplates |-> wfTemplates,
                                           result |-> result]
                                     ELSE Null,
                            !.docsAtStart = nodeDocs,
                            !.tplAtStart = wfTemplates,
                            !.bInvoked = FALSE,
                            !.fetchFailed = {},
                            !.unitFailed = {},
                            !.embedFailed = {},
                            !.ledgerFaults = 0,
                            !.logCalls = NoLogCalls,
                            !.inserted = NoInserts,
                            !.lost = [docs |-> {}, src |-> {}]]
    /\ UNCHANGED <<envVars, storeVars, allChunks, embeddings, idx, thrown,
                   tplVars, callVars>>

\* one try around the whole loop: a failure leaves the map empty
FetchedNothingOnFailure(upstream, lost) ==
    IF lost # {} THEN [n \in NodeTypes |-> Null] ELSE upstream

\* the map filled by fetchDocsFromGitHub / fetchNodeSourceInfo: a tree listing
\* or a file that fails is caught where it fails, the others are kept
Fetched(upstream, lost) ==
    [n \in NodeTypes |-> IF n \in lost THEN Null ELSE upstream[n]]

\* Steps 1-4: both sources fetched (a failed tree listing or file is skipped),
\* node types merged, chunks created
FetchSources ==
    /\ pc = "fetch"
    /\ \E lostDocs \in SUBSET { n \in NodeTypes : upDocs[n] # Null },
          lostSrc  \in SUBSET { n \in NodeTypes : upSrc[n] # Null } :
        LET lost      == Cardinality(lostDocs) + Cardinality(lostSrc)
            docsMap   == Fetched(upDocs, lostDocs)
            sourceMap == Fetched(upSrc, lostSrc)
            chunks    == BuildAllChunks(docsMap, sourceMap)
        IN  /\ lost <= faults
            /\ faults' = faults - lost
            /\ allChunks' = chunks
            /\ nodesProcessed' = Len(AllNodeTypes(docsMap, sourceMap))
            /\ pc' = IF chunks = <<>> THEN "noChunks" ELSE "embed"
            /\ hist' = [hist EXCEPT !.unitFailed =
                                        @ \cup (IF lost > 0 THEN { "file" } ELSE {}),
                                    !.lost = [docs |-> lostDocs, src |-> lostSrc]]
    /\ UNCHANGED <<dbUrlSet, upDocs, upSrc, upTpl, storeVars, errors, chunksCreated,
                   templatesProcessed, embeddings, idx, thrown, result,
                   tplVars, callVars>>

\* allChunks.length === 0: the error is recorded and logged, the run goes on
NoChunks ==
    /\ pc = "noChunks"
    /\ \E out \in Outcomes :
        LET errs == Append(errors, Err("No chunks generated", <<>>))
        IN  /\ errors' = errs
            /\ syncLog' = logSync(syncLog, Written(out), "github-docs", "error", 0, errs)
            /\ faults' = faults - (IF dbUrlSet THEN Cost(out) ELSE 0)
            /\ hist' = LogCalled(LedgerNoted(hist, out), "github-docs")
    /\ pc' = "templates"
    /\ UNCHANGED <<dbUrlSet, upDocs, upSrc, upTpl, nodeDocs, wfTemplates,
                   nodesProcessed, chunksCreated, templatesProcessed, allChunks,
                   embeddings, idx, thrown, result, tplVars, callVars>>

\* Step 5 and the store clients of step 6
GenerateEmbeddings ==
    /\ pc = "embed"
    /\ \E out \in Outcomes :
        /\ faults' = faults - Cost(out)
        /\ IF out = "throw"
           THEN /\ thrown' = "Embedding request failed"
                /\ pc' = CatchTarget("embed")
                /\ UNCHANGED <<embeddings, idx>>
           ELSE /\ embeddings' = generateEmbeddings(
                                    [k \in 1..Len(allChunks) |-> allChunks[k].content])
                /\ IF dbUrlSet
                   THEN /\ pc' = "delete"
                        /\ idx' = 1
                        /\ UNCHANGED thrown
                   ELSE /\ thrown' = "DATABASE_URL is not set"
                        /\ pc' = CatchTarget("setup")
                        /\ UNCHANGED idx
        /\ hist' = [hist EXCEPT !.embedFailed =
                                    @ \cup (IF out = "throw" THEN { "github-docs" } ELSE {})]
    /\ UNCHANGED <<dbUrlSet, upDocs, upSrc, upTpl, storeVars, errors, nodesProcessed,
                   chunksCreated, templatesProcessed, allChunks, result,
                   tplVars, callVars>>

\* the next record of the upsert loop, or the end of the loop
NextRecord(total, after) == IF idx + 1 > total THEN after ELSE "delete"

\* the lengths of the error messages the store driver gives
DriverErrorLengths == { 60, 950 }

SHORT_ERR == 200

\* errMsg.length > 200 ? errMsg.slice(0, 200) + "…" : errMsg
ShortErr(errLen) == IF errLen > SHORT_ERR THEN SHORT_ERR + 1 ELSE errLen

UpsertFailed(chunk, errLen) ==
    [msg |-> "Upsert failed", ref |-> DocKey(chunk), len |-> ShortErr(errLen)]

UpsertDelete ==
    /\ pc = "delete"
    /\ \E out \in Outcomes :
        /\ faults' = faults - Cost(out)
        /\ IF out = "ok"
           THEN /\ nodeDocs' = DeleteNodeDoc(nodeDocs, allChunks[idx])
                /\ pc' = "insert"
                /\ UNCHANGED <<errors, idx>>
           ELSE /\ IF CatchTarget("upsert") = "record"
                   THEN /\ \E errLen \in DriverErrorLengths :
                              errors' = Append(errors, UpsertFailed(allChunks[idx], errLen))
                        /\ idx' = idx + 1
                        /\ pc' = NextRecord(Len(allChunks), "log")
                   ELSE /\ pc' = CatchTarget("upsert")
                        /\ UNCHANGED <<errors, idx>>
                /\ UNCHANGED nodeDocs
        /\ hist' = [hist EXCEPT !.unitFailed =
                                    @ \cup (IF out = "ok" THEN {} ELSE { "upsert" })]
    /\ UNCHANGED <<dbUrlSet, upDocs, upSrc, upTpl, wfTemplates, syncLog,
                   nodesProcessed, chunksCreated, templatesProcessed, allChunks,
                   embeddings, thrown, result, tplVars, callVars>>

UpsertInsert ==
    /\ pc = "insert"
    /\ \E out \in Outcomes :
        /\ faults' = faults - Cost(out)
        /\ IF out = "ok"
           THEN /\ nodeDocs' = InsertRow(nodeDocs, NodeDocRow(allChunks[idx], embeddings[idx]))
                /\ chunksCreated' = chunksCreated + 1
                /\ hist' = [hist EXCEPT
                              !.everWritten = @ \cup { allChunks[idx].nodeType },
                              !.inserted.docs =
                                  @ + BagCardinality(nodeDocs') - BagCardinality(nodeDocs)]
                /\ UNCHANGED errors
                /\ idx' = idx + 1
                /\ pc' = NextRecord(Len(allChunks), "log")
           ELSE /\ IF CatchTarget("upsert") = "record"
                   THEN /\ \E errLen \in DriverErrorLengths :
                              errors' = Append(errors, UpsertFailed(allChunks[idx], errLen))
                        /\ idx' = idx + 1
                        /\ pc' = NextRecord(Len(allChunks), "log")
                   ELSE /\ pc' = CatchTarget("upsert")
                        /\ UNCHANGED <<errors, idx>>
                /\ hist' = [hist EXCEPT !.unitFailed = @ \cup { "upsert" }]
                /\ UNCHANGED <<nodeDocs, chunksCreated>>
    /\ UNCHANGED <<dbUrlSet, upDocs, upSrc, upTpl, wfTemplates, syncLog,
                   nodesProcessed, templatesProcessed, allChunks,
                   embeddings, thrown, result, tplVars, callVars>>

\* logSync("github-docs", ...) after the upsert loop
LogDocsSync ==
    /\ pc = "log"
    /\ \E out \in Outcomes :
        /\ faults' = faults - Cost(out)
        /\ syncLog' = logSync(syncLog, Written(out), "github-docs", StatusOf(errors),
                              nodesProcessed,
                              Slice(errors, ERR_SLICE))
        /\ hist' = LogCalled(LedgerNoted(hist, out), "github-docs")
        /\ IF LogSyncCatch(Written(out)) = "returned"
           THEN pc' = "templates" /\ UNCHANGED thrown
           ELSE pc' = CatchTarget("setup") /\ thrown' = "Failed to log sync"
    /\ UNCHANGED <<dbUrlSet, upDocs, upSrc, upTpl, nodeDocs, wfTemplates, errors,
                   nodesProcessed, chunksCreated, templatesProcessed, allChunks,
                   embeddings, idx, result, tplVars, callVars>>

\* the catch-all of runIngestion
RunCatch ==
    /\ pc = "catch"
    /\ \E out \in Outcomes :
        /\ faults' = faults - (IF dbUrlSet THEN Cost(out) ELSE 0)
        /\ syncLog' = logSync(syncLog, Written(out), "github-docs", "error",
                              nodesProcessed, << Err(thrown, <<>>) >>)
        /\ hist' = LogCalled(LedgerNoted(hist, out), "github-docs")
    /\ result' = CatchResult(nodesProcessed, chunksCreated, templatesProcessed,
                             errors, thrown)
    /\ errors' = result'.errors
    /\ pc' = "done"
    /\ allChunks' = <<>>
    /\ embeddings' = <<>>
    /\ idx' = 0
    /\ thrown' = NoString
    /\ UNCHANGED <<dbUrlSet, upDocs, upSrc, upTpl, nodeDocs, wfTemplates,
                   nodesProcessed, chunksCreated, templatesProcessed,
                   tplVars, callVars>>

(***************************************************************************)
(* runTemplateIngestion                                                    *)
(***************************************************************************)

TemplateSyncResult(success, processed, errs) ==
    [success |-> success, templatesProcessed |-> processed, errors |-> errs]

\* the settled results of one batch of fetchTemplateDetail calls, in batch
\* order: a failed request is caught inside fetchTemplateDetail and gives null
\* Promise.all in place of Promise.allSettled with a fetch that rejects: one
\* failed detail request loses the whole batch
DetailResultsAllOrNothing(batch, failed) ==
    [k \in 1..Len(batch) |->
        IF \E j \in 1..Len(batch) : batch[j].id \in failed THEN Null
        ELSE FlattenDetail(batch[k].id, DetailOf(batch[k].id))]

DetailResults(batch, failed) ==
    [k \in 1..Len(batch) |->
        IF batch[k].id \in failed THEN Null
        ELSE FlattenDetail(batch[k].id, DetailOf(batch[k].id))]

\* the non-null values of a batch, in order
Fulfilled(results) ==
    LET keep == { k \in 1..Len(results) : results[k] # Null }
        ks   == SelectSeqBy([k \in 1..Len(results) |-> k], keep)
    IN  [k \in 1..Len(ks) |-> results[ks[k]]]

\* Step 3: one record per detail whose buildTemplateRecord is not null
BuildRecords(sums, dets) ==
    LET summaryOf(id) ==
            IF \E k \in 1..Len(sums) : sums[k].id = id
            THEN sums[CHOOSE k \in 1..Len(sums) : sums[k].id = id]
            ELSE Null
        built == [k \in 1..Len(dets) |-> buildTemplateRecord(dets[k], summaryOf(dets[k].id))]
    IN  Fulfilled(built)

\* the try block of runIngestion calls runTemplateIngestion
InvokeTemplates ==
    /\ pc = "templates"
    /\ pc' = "awaitTemplates"
    /\ tpc' = "list"
    /\ tErrors' = <<>>
    /\ tProcessed' = 0
    /\ hist' = [hist EXCEPT !.bInvoked = TRUE]
    /\ UNCHANGED <<envVars, storeVars, errors, nodesProcessed, chunksCreated,
                   templatesProcessed, allChunks, embeddings, idx, thrown, result,
                   summaries, details, records, tEmbeddings, tIdx, tThrown, tResult,
                   callVars>>

\* Step 1: fetchTemplateList; a failing page ends its phase
FetchTemplateList ==
    /\ tpc = "list"
    /\ \E aiFail \in 0..Min(AiPages, Len(upTpl.aiPages) + 1),
          generalFail \in 0..Min(GeneralPages, Len(upTpl.generalPages) + 1),
          out \in Outcomes :
        LET failedPages == (IF aiFail > 0 THEN 1 ELSE 0) + (IF generalFail > 0 THEN 1 ELSE 0)
            list == fetchTemplateList(upTpl, aiFail, generalFail)
            errs == << Err("No templates returned from the n8n Templates API", <<>>) >>
        IN  /\ failedPages <= faults
            /\ summaries' = list
            /\ IF list = <<>>
               THEN /\ failedPages + (IF dbUrlSet THEN Cost(out) ELSE 0) <= faults
                    /\ faults' = faults - failedPages - (IF dbUrlSet THEN Cost(out) ELSE 0)
                    /\ tErrors' = errs
                    /\ syncLog' = logSync(syncLog, Written(out), "n8n-templates",
                                          "error", 0, errs)
                    /\ tResult' = TemplateSyncResult(FALSE, 0, errs)
                    /\ tpc' = "done"
                    /\ UNCHANGED tIdx
               ELSE /\ out = "ok"
                    /\ faults' = faults - failedPages
                    /\ tpc' = "details"
                    /\ tIdx' = 1
                    /\ UNCHANGED <<tErrors, syncLog, tResult>>
            /\ hist' = [hist EXCEPT !.unitFailed =
                                        @ \cup (IF failedPages > 0 THEN { "page" } ELSE {}),
                                    !.ledgerFaults =
                                        @ + (IF dbUrlSet THEN Cost(out) ELSE 0),
                                    !.logCalls["n8n-templates"] =
                                        @ + (IF list = <<>> THEN 1 ELSE 0)]
    /\ UNCHANGED <<dbUrlSet, upDocs, upSrc, upTpl, nodeDocs, wfTemplates, runVars,
                   tProcessed, details, records, tEmbeddings, tThrown, callVars>>

\* Step 2, one batch of CONCURRENCY detail requests (Promise.allSettled), and
\* after the last batch step 3
FetchDetailBatch ==
    /\ tpc = "details"
    /\ LET batch == SubSeq(summaries, tIdx, Min(tIdx + CONCURRENCY - 1, Len(summaries)))
           ids   == { batch[k].id : k \in 1..Len(batch) }
       IN \E failed \in SUBSET ids, out \in Outcomes :
           LET dets  == details \o Fulfilled(DetailResults(batch, failed))
               last  == tIdx + CONCURRENCY > Len(summaries)
               recs  == BuildRecords(summaries, dets)
               errs  == Append(tErrors, Err("No valid template records could be built", <<>>))
               logCost == IF dbUrlSet THEN Cost(out) ELSE 0
           IN  /\ Cardinality(failed) <= faults
               /\ details' = dets
               /\ hist' = [hist EXCEPT !.fetchFailed = @ \cup failed,
                                        !.unitFailed =
                                            @ \cup (IF failed # {} THEN { "detail" } ELSE {}),
                                        !.ledgerFaults = @ + logCost,
                                        !.logCalls["n8n-templates"] =
                                            @ + (IF last /\ recs = <<>> THEN 1 ELSE 0)]
               /\ IF ~last
                  THEN /\ out = "ok"
                       /\ faults' = faults - Cardinality(failed)
                       /\ tIdx' = tIdx + CONCURRENCY
                       /\ UNCHANGED <<tpc, records, tErrors, syncLog, tResult>>
                  ELSE IF recs = <<>>
                  THEN /\ Cardinality(failed) + logCost <= faults
                       /\ faults' = faults - Cardinality(failed) - logCost
                       /\ tErrors' = errs
                       /\ syncLog' = logSync(syncLog, Written(out), "n8n-templates",
                                             "error", 0, errs)
                       /\ tResult' = TemplateSyncResult(FALSE, 0, errs)
                       /\ tpc' = "done"
                       /\ UNCHANGED <<tIdx, records>>
                  ELSE /\ out = "ok"
                       /\ faults' = faults - Cardinality(failed)
                       /\ records' = recs
                       /\ tpc' = "tEmbed"
                       /\ UNCHANGED <<tIdx, tErrors, syncLog, tResult>>
    /\ UNCHANGED <<dbUrlSet, upDocs, upSrc, upTpl, nodeDocs, wfTemplates, runVars,
                   tProcessed, summaries, tEmbeddings, tThrown, callVars>>

\* Step 4 and the store clients of step 5
GenerateTemplateEmbeddings ==
    /\ tpc = "tEmbed"
    /\ \E out \in Outcomes :
        /\ faults' = faults - Cost(out)
        /\ IF out = "throw"
           THEN /\ tThrown' = "Embedding request failed"
                /\ tpc' = CatchTarget("tEmbed")
                /\ UNCHANGED <<tEmbeddings, tIdx>>
           ELSE /\ tEmbeddings' = generateEmbeddings(
                                     [k \in 1..Len(records) |-> records[k].content])
                /\ IF dbUrlSet
                   THEN /\ tpc' = "tDelete"
                        /\ tIdx' = 1
                        /\ UNCHANGED tThrown
                   ELSE /\ tThrown' = "DATABASE_URL is not set"
                        /\ tpc' = CatchTarget("tSetup")
                        /\ UNCHANGED tIdx
        /\ hist' = [hist EXCEPT !.embedFailed =
                                    @ \cup (IF out = "throw" THEN { "n8n-templates" } ELSE {})]
    /\ UNCHANGED <<dbUrlSet, upDocs, upSrc, upTpl, storeVars, runVars, tErrors,
                   tProcessed, summaries, details, records, tResult, callVars>>

NextTemplate(total) == IF tIdx + 1 > total THEN "tLog" ELSE "tDelete"

TemplateUpsertFailed(record, errLen) ==
    [msg |-> "Upsert failed for template", ref |-> << record.templateId >>,
     len |-> ShortErr(errLen)]

TemplateDelete ==
    /\ tpc = "tDelete"
    /\ \E out \in Outcomes :
        /\ faults' = faults - Cost(out)
        /\ IF out = "ok"
           THEN /\ wfTemplates' = DeleteTemplate(wfTemplates, records[tIdx])
                /\ tpc' = "tInsert"
                /\ UNCHANGED <<tErrors, tIdx>>
           ELSE /\ IF CatchTarget("tUpsert") = "record"
                   THEN /\ \E errLen \in DriverErrorLengths :
                              tErrors' = Append(tErrors,
                                                TemplateUpsertFailed(records[tIdx], errLen))
                        /\ tIdx' = tIdx + 1
                        /\ tpc' = NextTemplate(Len(records))
                   ELSE /\ tpc' = CatchTarget("tUpsert")
                        /\ UNCHANGED <<tErrors, tIdx>>
                /\ UNCHANGED wfTemplates
        /\ hist' = [hist EXCEPT !.unitFailed =
                                    @ \cup (IF out = "ok" THEN {} ELSE { "upsert" })]
    /\ UNCHANGED <<dbUrlSet, upDocs, upSrc, upTpl, nodeDocs, syncLog, runVars,
                   tProcessed, summaries, details, records, tEmbeddings, tThrown,
                   tResult, callVars>>

TemplateInsert ==
    /\ tpc = "tInsert"
    /\ \E out \in Outcomes :
        /\ faults' = faults - Cost(out)
        /\ IF out = "ok" /\ ~UniqueViolation(wfTemplates, records[tIdx])
           THEN /\ wfTemplates' = InsertRow(wfTemplates,
                                            TemplateRow(records[tIdx], tEmbeddings[tIdx]))
                /\ tProcessed' = tProcessed + 1
                /\ hist' = [hist EXCEPT
                              !.inserted.tpl =
                                  @ + BagCardinality(wfTemplates') - BagCardinality(wfTemplates)]
                /\ UNCHANGED tErrors
                /\ tIdx' = tIdx + 1
                /\ tpc' = NextTemplate(Len(records))
           ELSE /\ IF CatchTarget("tUpsert") = "record"
                   THEN /\ \E errLen \in DriverErrorLengths :
                              tErrors' = Append(tErrors,
                                                TemplateUpsertFailed(records[tIdx], errLen))
                        /\ tIdx' = tIdx + 1
                        /\ tpc' = NextTemplate(Len(records))
                   ELSE /\ tpc' = CatchTarget("tUpsert")
                        /\ UNCHANGED <<tErrors, tIdx>>
                /\ hist' = [hist EXCEPT !.unitFailed = @ \cup { "upsert" }]
                /\ UNCHANGED <<wfTemplates, tProcessed>>
    /\ UNCHANGED <<dbUrlSet, upDocs, upSrc, upTpl, nodeDocs, syncLog, runVars,
                   summaries, details, records, tEmbeddings, tThrown,
                   tResult, callVars>>

\* logTemplateSync(...) after the upsert loop, and the normal return
LogTemplateSync ==
    /\ tpc = "tLog"
    /\ \E out \in Outcomes :
        /\ faults' = faults - Cost(out)
        /\ syncLog' = logSync(syncLog, Written(out), "n8n-templates", StatusOf(tErrors),
                              tProcessed,
                              Slice(tErrors, ERR_SLICE))
        /\ hist' = LogCalled(LedgerNoted(hist, out), "n8n-templates")
        /\ IF LogSyncCatch(Written(out)) = "returned"
           THEN /\ tResult' = TemplateSyncResult(tErrors = <<>>, tProcessed, tErrors)
                /\ tpc' = "done"
                /\ UNCHANGED tThrown
           ELSE /\ tpc' = CatchTarget("tSetup")
                /\ tThrown' = "Failed to log template sync"
                /\ UNCHANGED tResult
    /\ UNCHANGED <<dbUrlSet, upDocs, upSrc, upTpl, nodeDocs, wfTemplates, runVars,
                   tErrors, tProcessed, summaries, details, records, tEmbeddings,
                   tIdx, callVars>>

\* the catch-all of runTemplateIngestion
TemplateCatch ==
    /\ tpc = "tCatch"
    /\ \E out \in Outcomes :
        /\ faults' = faults - (IF dbUrlSet THEN Cost(out) ELSE 0)
        /\ syncLog' = logSync(syncLog, Written(out), "n8n-templates", "error",
                              tProcessed, << Err(tThrown, <<>>) >>)
        /\ hist' = LogCalled(LedgerNoted(hist, out), "n8n-templates")
    /\ tErrors' = Append(tErrors, Err(tThrown, <<>>))
    /\ tResult' = TemplateSyncResult(FALSE, tProcessed, tErrors')
    /\ tpc' = "done"
    /\ UNCHANGED <<dbUrlSet, upDocs, upSrc, upTpl, nodeDocs, wfTemplates, runVars,
                   tProcessed, summaries, details, records, tEmbeddings,
                   tIdx, tThrown, callVars>>

\* errors.push(...templateResult.errors.slice(0, 5).map(e => `[templates] ${e}`))
TemplateErrors(errs) ==
    [k \in 1..Len(Slice(errs, ERR_SLICE)) |->
        [errs[k] EXCEPT !.msg = "[templates] " \o @]]

\* runTemplateIngestion has returned: its result is merged and runIngestion
\* returns
ReturnFromTemplates ==
    /\ pc = "awaitTemplates"
    /\ tpc \in { "done", "thrown" }
    /\ IF tpc = "done"
       THEN /\ templatesProcessed' = tResult.templatesProcessed
            /\ errors' = errors \o TemplateErrors(tResult.errors)
       ELSE \* the inner catch: an exception escaped runTemplateIngestion
            /\ errors' = Append(errors, Err("Template ingestion failed", <<>>))
            /\ UNCHANGED templatesProcessed
    /\ result' = ReturnResult(nodesProcessed, chunksCreated, templatesProcessed', errors')
    /\ pc' = "done"
    /\ allChunks' = <<>>
    /\ embeddings' = <<>>
    /\ idx' = 0
    /\ tpc' = "idle"
    /\ tErrors' = <<>>
    /\ tProcessed' = 0
    /\ summaries' = <<>>
    /\ details' = <<>>
    /\ records' = <<>>
    /\ tEmbeddings' = <<>>
    /\ tIdx' = 0
    /\ tThrown' = NoString
    /\ tResult' = Null
    /\ UNCHANGED <<envVars, storeVars, nodesProcessed, chunksCreated, thrown,
                   callVars, hist>>

(***************************************************************************)
(* Environment: the upstream sources change between runs                   *)
(***************************************************************************)

UpstreamChange ==
    /\ pc \in { "idle", "done" }
    /\ hist.runs < MaxRuns
    /\ \E u \in Scenarios :
        /\ << u.docs, u.src, u.tpl >> # << upDocs, upSrc, upTpl >>
        /\ upDocs' = u.docs
        /\ upSrc' = u.src
        /\ upTpl' = u.tpl
    /\ UNCHANGED <<dbUrlSet, faults, storeVars, runVars, tplVars, callVars, hist>>

(***************************************************************************)
(* Specification of the ingestion runs                                     *)
(***************************************************************************)

EmptyTable == EmptyBag

\* no call of generateEmbeddings or fetchWithRetry, no status query yet
NoSides ==
    /\ registry = Null
    /\ race = Null
    /\ poller = Null

NoUnits ==
    /\ route = Null
    /\ listCall = Null
    /\ detailCall = Null
    /\ rawCall = Null
    /\ chunkCall = Null
    /\ NoSides

NoCalls ==
    /\ embedCall = Null
    /\ fetchCall = Null
    /\ statusReply = Null
    /\ walkCall = Null
    /\ NoUnits

NoHistory ==
    [runs |-> 0, faultsAtStart |-> 0, upAtStart |-> <<>>, prev |-> Null,
     docsAtStart |-> EmptyTable, tplAtStart |-> EmptyTable,
     everWritten |-> {}, bInvoked |-> FALSE, fetchFailed |-> {},
     unitFailed |-> {}, embedFailed |-> {}, ledgerAsked |-> <<>>,
     logCalls |-> NoLogCalls, inserted |-> NoInserts,
     ledgerFaults |-> 0, lost |-> [docs |-> {}, src |-> {}]]

InitLocals ==
    /\ pc = "idle"
    /\ errors = <<>>
    /\ nodesProcessed = 0
    /\ chunksCreated = 0
    /\ templatesProcessed = 0
    /\ allChunks = <<>>
    /\ embeddings = <<>>
    /\ idx = 0
    /\ thrown = NoString
    /\ result = Null
    /\ tpc = "idle"
    /\ tErrors = <<>>
    /\ tProcessed = 0
    /\ summaries = <<>>
    /\ details = <<>>
    /\ records = <<>>
    /\ tEmbeddings = <<>>
    /\ tIdx = 0
    /\ tThrown = NoString
    /\ tResult = Null
    /\ lastQuery = Null

Init ==
    /\ dbUrlSet \in BOOLEAN
    /\ faults = MaxFaults
    /\ \E u \in Scenarios : upDocs = u.docs /\ upSrc = u.src /\ upTpl = u.tpl
    /\ nodeDocs = EmptyTable
    /\ wfTemplates = EmptyTable
    /\ syncLog = <<>>
    /\ InitLocals
    /\ NoCalls
    /\ hist = NoHistory

Next ==
    \/ StartRun
    \/ FetchSources
    \/ NoChunks
    \/ GenerateEmbeddings
    \/ UpsertDelete
    \/ UpsertInsert
    \/ LogDocsSync
    \/ RunCatch
    \/ InvokeTemplates
    \/ FetchTemplateList
    \/ FetchDetailBatch
    \/ GenerateTemplateEmbeddings
    \/ TemplateDelete
    \/ TemplateInsert
    \/ LogTemplateSync
    \/ TemplateCatch
    \/ ReturnFromTemplates
    \/ UpstreamChange

Spec == Init /\ [][Next]_vars

\* a full run over an upstream with no documentation and more templates than
\* one batch of detail requests
InitMany ==
    /\ dbUrlSet = TRUE
    /\ faults = MaxFaults
    /\ upDocs = UpMany.docs /\ upSrc = UpMany.src /\ upTpl = UpMany.tpl
    /\ nodeDocs = EmptyTable
    /\ wfTemplates = EmptyTable
    /\ syncLog = <<>>
    /\ InitLocals
    /\ NoCalls
    /\ hist = NoHistory

NextMany ==
    \/ StartRun
    \/ FetchSources
    \/ NoChunks
    \/ InvokeTemplates
    \/ FetchTemplateList
    \/ FetchDetailBatch
    \/ GenerateTemplateEmbeddings
    \/ TemplateDelete
    \/ TemplateInsert
    \/ LogTemplateSync
    \/ TemplateCatch
    \/ ReturnFromTemplates

SpecMany == InitMany /\ [][NextMany]_vars

\* the same run while the store rejects one write after another: enough
\* failures for more template errors than the merge takes over
OutageFaults == 6

InitOutage ==
    /\ dbUrlSet = TRUE
    /\ faults = OutageFaults
    /\ upDocs = UpMany.docs /\ upSrc = UpMany.src /\ upTpl = UpMany.tpl
    /\ nodeDocs = EmptyTable
    /\ wfTemplates = EmptyTable
    /\ syncLog = <<>>
    /\ InitLocals
    /\ NoCalls
    /\ hist = NoHistory

\* one call of runIngestion
StartRunOnce == hist.runs = 0 /\ StartRun

NextOutage ==
    \/ StartRunOnce
    \/ FetchSources
    \/ NoChunks
    \/ InvokeTemplates
    \/ FetchTemplateList
    \/ FetchDetailBatch
    \/ GenerateTemplateEmbeddings
    \/ TemplateDelete
    \/ TemplateInsert
    \/ LogTemplateSync
    \/ TemplateCatch
    \/ ReturnFromTemplates

SpecOutage == InitOutage /\ [][NextOutage]_vars

(***************************************************************************)
(* Retrieval                                                               *)
(***************************************************************************)

Dot(a, b) == a[1] * b[1] + a[2] * b[2]
Norm(a)   == CHOOSE n \in 0..(Dot(a, a)) : n * n = Dot(a, a)

\* 1 - cosineDistance(embedding, queryEmbedding), in hundredths
Similarity(embedding, queryEmbedding) ==
    (100 * Dot(embedding, queryEmbedding)) \div (Norm(embedding) * Norm(queryEmbedding))

\* the rows of a table, one element per stored copy
Copies(table) == UNION { { << r, c >> : c \in 1..table[r] } : r \in BagToSet(table) }

RECURSIVE OrderByLimit(_, _, _)
\* ORDER BY similarity DESC LIMIT limit over the matching rows: every result
\* list the query may give (rows of equal similarity come in any order)
OrderByLimit(matches, queryEmbedding, limit) ==
    LET sim(m) == Similarity(m[1].embedding, queryEmbedding) IN
    IF limit = 0 \/ matches = {}
    THEN { <<>> }
    ELSE LET top == { m \in matches : \A o \in matches : sim(m) >= sim(o) }
         IN  UNION { { << [row |-> m[1], similarity |-> sim(m)] >> \o rest :
                         rest \in OrderByLimit(matches \ { m }, queryEmbedding, limit - 1) } :
                     m \in top }

\* the filter written with >= in place of >
FindRelevantAtLeast(table, queryEmbedding, limit, minSimilarity) ==
    LET sim(m)  == Similarity(m[1].embedding, queryEmbedding)
        matches == { m \in Copies(table) : sim(m) >= minSimilarity }
    IN  OrderByLimit(matches, queryEmbedding, limit)

\* SELECT ..., similarity FROM table WHERE similarity > minSimilarity
\* ORDER BY similarity DESC LIMIT limit
FindRelevant(table, queryEmbedding, limit, minSimilarity) ==
    LET sim(m)  == Similarity(m[1].embedding, queryEmbedding)
        matches == { m \in Copies(table) : sim(m) > minSimilarity }
    IN  OrderByLimit(matches, queryEmbedding, limit)

\* SELECT ..., 1.0 AS similarity FROM node_docs WHERE node_type = nodeType
getNodeDocsByType(table, nodeType) ==
    { [row |-> m[1], copy |-> m[2], similarity |-> 100] :
        m \in { x \in Copies(table) : x[1].nodeType = nodeType } }

MaxLimit == 3
Thresholds == { -100, 0, 30, 60, 96, 100 }

findRelevantNodeDocs ==
    /\ \E q \in Vectors, limit \in 0..MaxLimit, minSimilarity \in Thresholds :
        \E results \in FindRelevant(nodeDocs, q, limit, minSimilarity) :
            lastQuery' = [table |-> "node_docs", queryEmbedding |-> q, limit |-> limit,
                          minSimilarity |-> minSimilarity, results |-> results]
    /\ UNCHANGED <<envVars, storeVars, runVars, tplVars, hist,
                   embedCall, fetchCall, statusReply, unitVars>>

findRelevantTemplates ==
    /\ \E q \in Vectors, limit \in 0..MaxLimit, minSimilarity \in Thresholds :
        \E results \in FindRelevant(wfTemplates, q, limit, minSimilarity) :
            lastQuery' = [table |-> "workflow_templates", queryEmbedding |-> q,
                          limit |-> limit,
                          minSimilarity |-> minSimilarity, results |-> results]
    /\ UNCHANGED <<envVars, storeVars, runVars, tplVars, hist,
                   embedCall, fetchCall, statusReply, unitVars>>

\* ---- the stores the retrieval is checked on: the empty store and the store
\* a run without failures leaves for an upstream state
Range(f) == { f[k] : k \in DOMAIN f }

StoredDocs(u) ==
    SetToBag({ NodeDocRow(c, Embed(c.content)) : c \in Range(BuildAllChunks(u.docs, u.src)) })

StoredTemplates(u) ==
    LET sums == fetchTemplateList(u.tpl, 0, 0)
        recs == BuildRecords(sums, Fulfilled(DetailResults(sums, {})))
    IN  SetToBag({ TemplateRow(r, Embed(r.content)) : r \in Range(recs) })

InitRetrieval ==
    /\ dbUrlSet = TRUE
    /\ faults = 0
    /\ \E u \in Scenarios \cup { UpMany } :
          /\ upDocs = u.docs /\ upSrc = u.src /\ upTpl = u.tpl
          /\ nodeDocs \in { EmptyTable, StoredDocs(u) }
          /\ wfTemplates \in { EmptyTable, StoredTemplates(u) }
    /\ syncLog = <<>>
    /\ InitLocals
    /\ NoCalls
    /\ hist = NoHistory

NextRetrieval ==
    \/ findRelevantNodeDocs
    \/ findRelevantTemplates

SpecRetrieval == InitRetrieval /\ [][NextRetrieval]_vars

(***************************************************************************)
(* GET /api/sync-docs without the cron secret: the status query            *)
(***************************************************************************)

\* ORDER BY synced_at ASC LIMIT 1
OldestEntry(log, source) ==
    LET ks == { k \in 1..Len(log) : log[k].source = source }
    IN  IF ks = {} THEN Null
        ELSE log[CHOOSE k \in ks : \A j \in ks : log[k].syncedAt <= log[j].syncedAt]

\* SELECT * FROM sync_log WHERE source = ... ORDER BY synced_at DESC LIMIT 1
LatestEntry(log, source) ==
    LET ks == { k \in 1..Len(log) : log[k].source = source }
    IN  IF ks = {} THEN Null
        ELSE log[CHOOSE k \in ks : \A j \in ks : log[k].syncedAt >= log[j].syncedAt]

\* the lastSync / lastTemplateSync object of the reply
StatusOfEntry(entry) ==
    IF entry = Null THEN Null
    ELSE [status |-> entry.status, source |-> entry.source,
          processed |-> entry.nodesProcessed, error |-> entry.error,
          syncedAt |-> entry.syncedAt]

StatusReply(log) ==
    LET docsLog      == LatestEntry(log, "github-docs")
        templatesLog == LatestEntry(log, "n8n-templates")
    IN  [lastSync |-> StatusOfEntry(docsLog),
         lastTemplateSync |-> StatusOfEntry(templatesLog),
         message |-> IF docsLog = Null /\ templatesLog = Null
                     THEN "No sync has been performed yet." ELSE NoString,
         failed |-> FALSE]

\* the reply of the catch: the store is not configured or the query failed
StatusUnavailable ==
    [lastSync |-> Null, lastTemplateSync |-> Null,
     message |-> "Database not configured yet.", failed |-> TRUE]

GetStatus ==
    /\ \E out \in Outcomes :
          /\ faults' = faults - (IF dbUrlSet THEN Cost(out) ELSE 0)
          /\ statusReply' = IF Written(out) THEN StatusReply(syncLog) ELSE StatusUnavailable
    /\ hist' = [hist EXCEPT !.ledgerAsked = syncLog]
    /\ UNCHANGED <<dbUrlSet, upDocs, upSrc, upTpl, storeVars, runVars, tplVars,
                   lastQuery, embedCall, fetchCall, unitVars>>

InitStatus ==
    /\ dbUrlSet \in BOOLEAN
    /\ faults = MaxFaults
    /\ upDocs = UpExample.docs /\ upSrc = UpExample.src /\ upTpl = UpExample.tpl
    /\ nodeDocs = EmptyTable
    /\ wfTemplates = EmptyTable
    /\ syncLog = <<>>
    /\ InitLocals
    /\ NoCalls
    /\ hist = NoHistory

NextStatus ==
    \/ StartRun
    \/ FetchSources
    \/ NoChunks
    \/ GenerateEmbeddings
    \/ UpsertDelete
    \/ UpsertInsert
    \/ LogDocsSync
    \/ RunCatch
    \/ InvokeTemplates
    \/ FetchTemplateList
    \/ FetchDetailBatch
    \/ GenerateTemplateEmbeddings
    \/ TemplateDelete
    \/ TemplateInsert
    \/ LogTemplateSync
    \/ TemplateCatch
    \/ ReturnFromTemplates
    \/ GetStatus

SpecStatus == InitStatus /\ [][NextStatus]_vars

(***************************************************************************)
(* buildFlowDescription on its own: the walk, one call or loop step at a   *)
(* time, on small graphs (every wiring of three nodes) and on a chain and  *)
(* a ring longer than the depth cap                                        *)
(***************************************************************************)

ChainLength == 13

ChainName(k) == "N" \o ToString(k)
ChainNodes ==
    [k \in 1..ChainLength |->
        Node(ChainName(k - 1), IF k = 1 THEN "n8n-nodes-base.webhook"
                               ELSE "n8n-nodes-base.slack")]
\* N0 -> N1 -> ... ; the ring closes the chain
ChainConnections(closed) ==
    [n \in { ChainName(k) : k \in 0..(ChainLength - 1) } |->
        LET k == CHOOSE j \in 0..(ChainLength - 1) : ChainName(j) = n
        IN  IF k < ChainLength - 1 THEN Conn(<< << ChainName(k + 1) >> >>, <<>>)
            ELSE IF closed THEN Conn(<< << ChainName(0) >> >>, <<>>)
            ELSE Conn(<<>>, <<>>)]

SmallNodes ==
    << Node("Note", "n8n-nodes-base.stickyNote"),
       Node("T", "n8n-nodes-base.webhook"),
       Node("A", "@n8n/n8n-nodes-langchain.agent"),
       Node("B", "n8n-nodes-base.slack") >>
\* the outputs of one node
MainChoices ==
    { <<>>, << << "T" >> >>, << << "A" >> >>, << << "B" >> >>, << << "A", "B" >> >>,
      << << "B" >>, << "T", "A" >> >> }
SmallGraphs ==
    { [nodes |-> SmallNodes,
       connections |-> ("T" :> Conn(t, <<>>)) @@ ("A" :> Conn(a, ai)) @@ ("B" :> Conn(b, <<>>))] :
        t \in MainChoices, a \in MainChoices, b \in MainChoices,
        ai \in { <<>>, << "Model" >> } }
Workflows ==
    SmallGraphs
    \cup { [nodes |-> ChainNodes, connections |-> ChainConnections(closed)] :
              closed \in BOOLEAN }
    \cup { [nodes |-> << Node("Note", "n8n-nodes-base.stickyNote") >>,
            connections |-> EmptyConnections],
           [nodes |-> HookNodes, connections |-> HookConnections],
           [nodes |-> AgentNodes, connections |-> AgentConnections] }

\* the frame of one activation of walk(nodeName, depth)
Frame(nodeName, depth) == [node |-> nodeName, depth |-> depth, at |-> "call", targets |-> <<>>]

\* walk(nodeName, depth) is entered: the guard, visited.add, flowParts.push
WalkCall ==
    /\ walkCall.stack # <<>>
    /\ Head(walkCall.stack).at = "call"
    /\ LET f    == Head(walkCall.stack)
           rest == Tail(walkCall.stack)
       IN  IF ~ShouldEnter(walkCall.visited, f.node, f.depth)
           THEN walkCall' = [walkCall EXCEPT !.stack = rest]
           ELSE walkCall' =
                  [walkCall EXCEPT
                     !.visited = @ \cup { f.node },
                     !.flowParts = Append(@, FlowEntry(f.node, <<>>)),
                     !.entered = Append(@, [node |-> f.node, depth |-> f.depth]),
                     !.stack =
                        IF f.node \notin DOMAIN walkCall.connections THEN rest
                        ELSE << [f EXCEPT !.at = "loop",
                                          !.targets =
                                             Flatten(walkCall.connections[f.node].main)] >>
                             \o rest]
    /\ UNCHANGED <<mainVars, route, listCall, detailCall, rawCall, chunkCall>>

\* the loops over conn.main: the next target is walked; after the last one
\* the sub-nodes are noted and the activation returns
WalkLoop ==
    /\ walkCall.stack # <<>>
    /\ Head(walkCall.stack).at = "loop"
    /\ LET f    == Head(walkCall.stack)
           rest == Tail(walkCall.stack)
           conn == walkCall.connections[f.node]
           last == Len(walkCall.flowParts)
       IN  IF f.targets # <<>>
           THEN walkCall' =
                  [walkCall EXCEPT
                     !.stack = << Frame(Head(f.targets), f.depth + 1),
                                  [f EXCEPT !.targets = Tail(@)] >> \o rest]
           ELSE walkCall' =
                  [walkCall EXCEPT
                     !.stack = rest,
                     !.flowParts = IF conn.ai # <<>>
                                   THEN [@ EXCEPT ![last] = FlowEntry(f.node, conn.ai)]
                                   ELSE @]
    /\ UNCHANGED <<mainVars, route, listCall, detailCall, rawCall, chunkCall>>

\* buildFlowDescription is called: the trigger node is looked up and walked
InitWalk ==
    /\ dbUrlSet = TRUE
    /\ faults = 0
    /\ upDocs = UpExample.docs /\ upSrc = UpExample.src /\ upTpl = UpExample.tpl
    /\ nodeDocs = EmptyTable
    /\ wfTemplates = EmptyTable
    /\ syncLog = <<>>
    /\ InitLocals
    /\ embedCall = Null /\ fetchCall = Null /\ statusReply = Null
    /\ NoUnits
    /\ hist = NoHistory
    /\ \E w \in Workflows :
          LET triggers == { k \in 1..Len(w.nodes) : IsTriggerLike(w.nodes[k].type) }
              first    == CHOOSE k \in triggers : \A m \in triggers : k <= m
          IN  walkCall = [nodes |-> w.nodes, connections |-> w.connections,
                          visited |-> {}, flowParts |-> <<>>, entered |-> <<>>,
                          stack |-> IF triggers = {} THEN <<>>
                                    ELSE << Frame(w.nodes[first].name, 0) >>]

NextWalk ==
    \/ WalkCall
    \/ WalkLoop

\* the walk is sequential code: a step that can be taken is taken
SpecWalk == InitWalk /\ [][NextWalk]_vars /\ WF_vars(NextWalk)

(***************************************************************************)
(* /api/sync-docs: who may start an ingestion run                          *)
(***************************************************************************)

MaxRequests == 2

CronSecret == "cron-secret-of-16-chars"
\* the key the settings page sends: settings.aiApiKey || "manual-trigger"
UserAiKey == "sk-user"
SettingsPageKeys == { UserAiKey, "manual-trigger" }

\* process.env.CRON_SECRET (NoString: unset)
CronSecrets == { NoString, CronSecret }
\* the Authorization header (NoString: absent)
AuthHeaders == { NoString, "Bearer " \o CronSecret, "Bearer guess", "Bearer ", "Bearer undefined" }
\* the x-sync-key header (NoString: absent or empty)
SyncKeys == { NoString, "guess" } \cup SettingsPageKeys

\* cronSecret && authHeader === `Bearer ${cronSecret}`
IsVercelCron(cronSecret, authHeader) ==
    cronSecret # NoString /\ authHeader = "Bearer " \o cronSecret

\* manualKey && manualKey.length > 0
IsManualTrigger(manualKey) == manualKey # NoString /\ Len(manualKey) > 0

Request(method, authHeader, manualKey) ==
    [method |-> method, authorization |-> authHeader, syncKey |-> manualKey]

Served(request, status, ran) ==
    [route EXCEPT !.last = request, !.status = status,
                  !.ran = ran, !.served = @ + 1,
                  !.runs = @ + (IF ran THEN 1 ELSE 0)]

POST ==
    /\ route.served < MaxRequests
    /\ \E authHeader \in AuthHeaders, manualKey \in SyncKeys :
          LET request == Request("POST", authHeader, manualKey)
          IN  IF ~IsVercelCron(route.cronSecret, authHeader) /\ ~IsManualTrigger(manualKey)
              THEN route' = Served(request, 401, FALSE)
              ELSE \* runIngestion returns its result: it does not throw
                   route' = Served(request, 200, TRUE)
    /\ UNCHANGED <<mainVars, walkCall, listCall, detailCall, rawCall, chunkCall>>

GET ==
    /\ route.served < MaxRequests
    /\ \E authHeader \in AuthHeaders, manualKey \in SyncKeys :
          LET request == Request("GET", authHeader, manualKey)
          IN  IF IsVercelCron(route.cronSecret, authHeader)
              THEN route' = Served(request, 200, TRUE)
              ELSE \* the status query
                   route' = Served(request, 200, FALSE)
    /\ UNCHANGED <<mainVars, walkCall, listCall, detailCall, rawCall, chunkCall>>

InitRoute ==
    /\ dbUrlSet = TRUE
    /\ faults = 0
    /\ upDocs = UpExample.docs /\ upSrc = UpExample.src /\ upTpl = UpExample.tpl
    /\ nodeDocs = EmptyTable
    /\ wfTemplates = EmptyTable
    /\ syncLog = <<>>
    /\ InitLocals
    /\ embedCall = Null /\ fetchCall = Null /\ statusReply = Null
    /\ walkCall = Null /\ listCall = Null /\ detailCall = Null
    /\ rawCall = Null /\ chunkCall = Null
    /\ NoSides
    /\ hist = NoHistory
    /\ \E cronSecret \in CronSecrets :
          route = [cronSecret |-> cronSecret, last |-> Null, status |-> 0,
                   ran |-> FALSE, served |-> 0, runs |-> 0]

NextRoute ==
    \/ POST
    \/ GET

SpecRoute == InitRoute /\ [][NextRoute]_vars

(***************************************************************************)
(* fetchTemplateList on its own: one search request at a time              *)
(***************************************************************************)

\* what the search endpoint may answer: a failure (after fetchWithRetry gave
\* up), an empty page, or a page of summaries
SearchResponses ==
    { [ok |-> FALSE, workflows |-> <<>>],
      [ok |-> TRUE,  workflows |-> <<>>],
      [ok |-> TRUE,  workflows |-> << Summary(101, 80, "AI") >>],
      [ok |-> TRUE,  workflows |-> << Summary(101, 80, "AI"), Summary(102, 0, "Sales") >>],
      [ok |-> TRUE,  workflows |-> << Summary(103, 0, NoString) >>] }

\* a loop that goes on to the next page after an empty one
BreaksOnFailureOnly(response) == ~response.ok

\* if (!data.workflows || data.workflows.length === 0) break;  catch { break }
Breaks(response) == ~response.ok \/ response.workflows = <<>>

MaxPages(phase) == IF phase = "ai" THEN AiPages ELSE GeneralPages

\* one iteration of the loop of the current phase
SearchPage ==
    /\ listCall.phase \in { "ai", "general" }
    /\ \E response \in SearchResponses :
          LET seenIds == { listCall.allTemplates[k].id : k \in 1..Len(listCall.allTemplates) }
              workflows == response.workflows
              freshIds == Unique([k \in 1..Len(workflows) |-> workflows[k].id], seenIds)
              fresh   == [k \in 1..Len(freshIds) |->
                             workflows[CHOOSE j \in 1..Len(workflows) :
                                          /\ workflows[j].id = freshIds[k]
                                          /\ \A m \in 1..(j - 1) : workflows[m].id # freshIds[k]]]
              ends    == Breaks(response) \/ listCall.page = MaxPages(listCall.phase)
          IN  listCall' =
                [listCall EXCEPT
                   !.requests = Append(@, [phase |-> listCall.phase, page |-> listCall.page,
                                           response |-> response]),
                   !.allTemplates = IF Breaks(response) THEN @ ELSE @ \o fresh,
                   !.page = IF ends THEN 1 ELSE @ + 1,
                   !.phase = IF ~ends THEN @
                             ELSE IF @ = "ai" THEN "general" ELSE "returned"]
    /\ UNCHANGED <<mainVars, walkCall, route, detailCall, rawCall, chunkCall>>

InitList ==
    /\ dbUrlSet = TRUE
    /\ faults = 0
    /\ upDocs = UpExample.docs /\ upSrc = UpExample.src /\ upTpl = UpExample.tpl
    /\ nodeDocs = EmptyTable
    /\ wfTemplates = EmptyTable
    /\ syncLog = <<>>
    /\ InitLocals
    /\ embedCall = Null /\ fetchCall = Null /\ statusReply = Null
    /\ walkCall = Null /\ route = Null /\ detailCall = Null
    /\ rawCall = Null /\ chunkCall = Null
    /\ NoSides
    /\ hist = NoHistory
    /\ listCall = [phase |-> "ai", page |-> 1, requests |-> <<>>, allTemplates |-> <<>>]

NextList == SearchPage

SpecList == InitList /\ [][NextList]_vars

(***************************************************************************)
(* fetchAllTemplateDetails on its own: the detail requests of a batch run  *)
(* concurrently and settle in any order                                    *)
(***************************************************************************)

MaxSummaries == 11
BATCH_DELAY_MS == 300

\* a batch that takes every remaining summary at once
BatchAll(i, length) == i..(length - 1)

\* summaries.slice(i, i + CONCURRENCY), as positions (from 0)
Batch(i, length) == i..(Min(i + CONCURRENCY, length) - 1)

\* Promise.allSettled(batch.map(fetchTemplateDetail)): every request of the
\* batch is started
StartBatch ==
    /\ detailCall.at = "loop"
    /\ detailCall.i < detailCall.length
    /\ detailCall' =
          [detailCall EXCEPT
             !.at = "await",
             !.inFlight = Batch(detailCall.i, detailCall.length),
             !.started = @ @@ [j \in Batch(detailCall.i, detailCall.length) |->
                                  [settledBefore |-> detailCall.settled,
                                   slept |-> detailCall.slept]]]
    /\ UNCHANGED <<mainVars, walkCall, route, listCall, rawCall, chunkCall>>

\* one request settles: fetchTemplateDetail resolves with a detail or null
Settle ==
    /\ detailCall.at = "await"
    /\ \E j \in detailCall.inFlight :
          detailCall' = [detailCall EXCEPT !.inFlight = @ \ { j },
                                          !.settled = @ \cup { j }]
    /\ UNCHANGED <<mainVars, walkCall, route, listCall, rawCall, chunkCall>>

\* allSettled resolves; if (i + CONCURRENCY < summaries.length) sleep
BatchSettled ==
    /\ detailCall.at = "await"
    /\ detailCall.inFlight = {}
    /\ detailCall' =
          [detailCall EXCEPT
             !.at = IF detailCall.i + CONCURRENCY < detailCall.length
                    THEN "sleep" ELSE "loop",
             !.i = IF detailCall.i + CONCURRENCY < detailCall.length
                   THEN @ ELSE @ + CONCURRENCY]
    /\ UNCHANGED <<mainVars, walkCall, route, listCall, rawCall, chunkCall>>

\* the timer of sleep(BATCH_DELAY_MS) fires
DelayElapsed ==
    /\ detailCall.at = "sleep"
    /\ detailCall' = [detailCall EXCEPT !.at = "loop",
                                        !.i = @ + CONCURRENCY,
                                        !.slept = Append(@, BATCH_DELAY_MS)]
    /\ UNCHANGED <<mainVars, walkCall, route, listCall, rawCall, chunkCall>>

\* the loop condition fails: return details
DetailsReturn ==
    /\ detailCall.at = "loop"
    /\ detailCall.i >= detailCall.length
    /\ detailCall' = [detailCall EXCEPT !.at = "returned"]
    /\ UNCHANGED <<mainVars, walkCall, route, listCall, rawCall, chunkCall>>

InitDetails ==
    /\ dbUrlSet = TRUE
    /\ faults = 0
    /\ upDocs = UpExample.docs /\ upSrc = UpExample.src /\ upTpl = UpExample.tpl
    /\ nodeDocs = EmptyTable
    /\ wfTemplates = EmptyTable
    /\ syncLog = <<>>
    /\ InitLocals
    /\ embedCall = Null /\ fetchCall = Null /\ statusReply = Null
    /\ walkCall = Null /\ route = Null /\ listCall = Null
    /\ rawCall = Null /\ chunkCall = Null
    /\ NoSides
    /\ hist = NoHistory
    /\ \E length \in 0..MaxSummaries :
          detailCall = [length |-> length, i |-> 0, at |-> "loop", inFlight |-> {},
                        settled |-> {}, slept |-> <<>>, started |-> << >>]

NextDetails ==
    \/ StartBatch
    \/ Settle
    \/ BatchSettled
    \/ DelayElapsed
    \/ DetailsReturn

SpecDetails == InitDetails /\ [][NextDetails]_vars

(***************************************************************************)
(* createNodeChunks on its own, for every combination of doc text and      *)
(* source info                                                             *)
(***************************************************************************)

\* doc texts: no file, an empty file, and files with or without each of the
\* sections the extractors look for
DocTexts ==
    { Null, DocEmpty }
    \cup { Doc(6000, 5900, lastPeriod, paramHeader, paramTable, credHeader, exHeader, 0) :
              lastPeriod \in { -1, 300 }, paramHeader \in { 0, 400, 2600 },
              paramTable \in { 0, 350 }, credHeader \in { 0, 300 }, exHeader \in { 0, 200 } }

\* parsed source infos: none, and with or without credentials, properties
\* and description
SourceInfos ==
    { Null }
    \cup { [displayName |-> "Slack", defaultVersion |-> 2, description |-> description,
            category |-> "output", credentials |-> credentials,
            properties |-> properties] :
              description \in { 0, 40 },
              credentials \in { <<>>, << "slackApi" >>, << "slackApi", "slackOAuth2Api" >> },
              properties \in { 0, 300 } }

CreateNodeChunks ==
    /\ chunkCall.result = Null
    /\ chunkCall' = [chunkCall EXCEPT
                        !.result = [chunks |-> createNodeChunks(chunkCall.nodeType,
                                                                chunkCall.docContent,
                                                                chunkCall.sourceInfo)]]
    /\ UNCHANGED <<mainVars, walkCall, route, listCall, detailCall, rawCall>>

InitChunks ==
    /\ dbUrlSet = TRUE
    /\ faults = 0
    /\ upDocs = UpExample.docs /\ upSrc = UpExample.src /\ upTpl = UpExample.tpl
    /\ nodeDocs = EmptyTable
    /\ wfTemplates = EmptyTable
    /\ syncLog = <<>>
    /\ InitLocals
    /\ embedCall = Null /\ fetchCall = Null /\ statusReply = Null
    /\ walkCall = Null /\ route = Null /\ listCall = Null
    /\ detailCall = Null /\ rawCall = Null
    /\ NoSides
    /\ hist = NoHistory
    /\ \E nodeType \in NodeTypes, docContent \in DocTexts, sourceInfo \in SourceInfos :
          chunkCall = [nodeType |-> nodeType, docContent |-> docContent,
                       sourceInfo |-> sourceInfo, result |-> Null]

NextChunks == CreateNodeChunks

SpecChunks == InitChunks /\ [][NextChunks]_vars

(***************************************************************************)
(* generateEmbeddings on its own                                           *)
(***************************************************************************)

MaxTexts == 1030
MaxSeed  == 2

\* the k-th text of a list of texts
TextOf(k, seed) == [parts |-> <<>>, len |-> (k * k) \div (seed + 2)]

TextLists == { [k \in 1..n |-> TextOf(k, seed)] : n \in 0..MaxTexts, seed \in 1..MaxSeed }

\* one call of generateEmbeddings(texts); it rejects when one of its embedMany
\* calls rejects (failBatch, 0: none)
GenerateEmbeddingsCall ==
    /\ embedCall # Null
    /\ embedCall.result = Null
    /\ \E failBatch \in 0..NumBatches(embedCall.texts) :
          embedCall' = [embedCall EXCEPT !.result =
                            IF failBatch > 0
                            THEN [ok |-> FALSE, failBatch |-> failBatch, vectors |-> <<>>]
                            ELSE [ok |-> TRUE, failBatch |-> 0,
                                  vectors |-> generateEmbeddings(embedCall.texts)]]
    /\ UNCHANGED <<envVars, storeVars, runVars, tplVars, hist,
                   lastQuery, fetchCall, statusReply, unitVars>>

InitEmbedding ==
    /\ dbUrlSet = TRUE
    /\ faults = 0
    /\ upDocs = UpExample.docs /\ upSrc = UpExample.src /\ upTpl = UpExample.tpl
    /\ nodeDocs = EmptyTable
    /\ wfTemplates = EmptyTable
    /\ syncLog = <<>>
    /\ InitLocals
    /\ \E texts \in TextLists : embedCall = [texts |-> texts, result |-> Null]
    /\ fetchCall = Null
    /\ statusReply = Null
    /\ walkCall = Null
    /\ NoUnits
    /\ hist = NoHistory

NextEmbedding == GenerateEmbeddingsCall

SpecEmbedding == InitEmbedding /\ [][NextEmbedding]_vars

(***************************************************************************)
(* fetchWithRetry on its own                                               *)
(***************************************************************************)

MAX_RETRIES == 3

\* the URLs fetchWithRetry is called with
Urls == { "templates/search?page=1&rows=50&category=ai", "templates/search?page=1&rows=50",
          "templates/workflows/101", "templates/workflows/102" }

NetworkError == 0
TooManyRequests == 429

\* what one request gives: an HTTP status, or no response at all
Statuses == { NetworkError, 200, 204, 301, 404, TooManyRequests, 500, 503 }

\* res.ok
Ok(status) == status \in 200..299

\* a retry after any failed response, not only after 429
ShouldRetryAnyFailure(status, attempt, retries) == ~Ok(status) /\ attempt < retries

\* res.status === 429 && attempt < retries
ShouldRetry(status, attempt, retries) == status = TooManyRequests /\ attempt < retries

\* Math.pow(2, attempt) * 1000
Backoff(attempt) == (2 ^ attempt) * 1000

\* fetchWithRetry(url) is called (retries = MAX_RETRIES)
FetchWithRetryStart ==
    /\ IF fetchCall = Null THEN TRUE ELSE fetchCall.state # "running"
    /\ \E url \in Urls :
          fetchCall' = [url |-> url, retries |-> MAX_RETRIES, attempt |-> 0,
                        responses |-> <<>>, backoffs |-> <<>>, state |-> "running"]
    /\ UNCHANGED <<envVars, storeVars, runVars, tplVars, hist,
                   lastQuery, embedCall, statusReply, unitVars>>

\* one iteration of the loop: a request and what follows from its response
FetchAttempt ==
    /\ fetchCall # Null
    /\ fetchCall.state = "running"
    /\ fetchCall.attempt <= fetchCall.retries
    /\ \E status \in Statuses :
          fetchCall' =
              [fetchCall EXCEPT
                 !.responses = Append(@, status),
                 !.attempt = IF status # NetworkError
                                /\ ShouldRetry(status, fetchCall.attempt, fetchCall.retries)
                             THEN @ + 1 ELSE @,
                 !.backoffs = IF status # NetworkError
                                 /\ ShouldRetry(status, fetchCall.attempt, fetchCall.retries)
                              THEN Append(@, Backoff(fetchCall.attempt)) ELSE @,
                 !.state = IF status = NetworkError THEN "failed"
                           ELSE IF ShouldRetry(status, fetchCall.attempt, fetchCall.retries)
                           THEN "running"
                           ELSE IF ~Ok(status) THEN "failed"
                           ELSE "returned"]
    /\ UNCHANGED <<envVars, storeVars, runVars, tplVars, hist,
                   lastQuery, embedCall, statusReply, unitVars>>

InitFetch ==
    /\ dbUrlSet = TRUE
    /\ faults = 0
    /\ upDocs = UpExample.docs /\ upSrc = UpExample.src /\ upTpl = UpExample.tpl
    /\ nodeDocs = EmptyTable
    /\ wfTemplates = EmptyTable
    /\ syncLog = <<>>
    /\ InitLocals
    /\ NoCalls
    /\ hist = NoHistory

NextFetch ==
    \/ FetchWithRetryStart
    \/ FetchAttempt

\* a request that was issued is answered, or fails
SpecFetch == InitFetch /\ [][NextFetch]_vars /\ WF_vars(FetchAttempt)

(***************************************************************************)
(* fetchRawFile on its own                                                 *)
(***************************************************************************)

RawFiles ==
    { [repo |-> "n8n-io/n8n-docs", path |-> p] :
        p \in { "docs/integrations/builtin/app-nodes/n8n-nodes-base.slack/index.md",
                "docs/integrations/builtin/core-nodes/n8n-nodes-base.cron/index.md",
                "docs/integrations/builtin/trigger-nodes/n8n-nodes-base.webhook/index.md",
                "docs/integrations/builtin/cluster-nodes/index.md" } }
    \cup { [repo |-> "n8n-io/n8n", path |-> p] :
        p \in { "packages/nodes-base/nodes/Slack/Slack.node.ts",
                "packages/nodes-base/nodes/Cron/Cron.node.ts",
                "packages/nodes-base/nodes/Webhook/Webhook.node.ts",
                "packages/nodes-base/nodes/HttpRequest/HttpRequest.node.ts" } }

\* what raw.githubusercontent.com may answer (NetworkError: fetch rejects)
RawStatuses == { NetworkError, 200, 403, 404, 500 }

\* await fetch(`https://raw.githubusercontent.com/${repo}/main/${path}`)
FetchRawMain ==
    /\ rawCall.at = "main"
    /\ \E status \in RawStatuses :
          rawCall' = [rawCall EXCEPT
                        !.requests = Append(@, [branch |-> "main", status |-> status]),
                        !.at = IF status = NetworkError THEN "thrown"
                               ELSE IF ~Ok(status) THEN "master"
                               ELSE "returned",
                        !.text = IF status # NetworkError /\ Ok(status) THEN "main" ELSE @]
    /\ UNCHANGED <<mainVars, walkCall, route, listCall, detailCall, chunkCall>>

\* if (!res.ok): await fetch(`.../${repo}/master/${path}`)
FetchRawMaster ==
    /\ rawCall.at = "master"
    /\ \E status \in RawStatuses :
          rawCall' = [rawCall EXCEPT
                        !.requests = Append(@, [branch |-> "master", status |-> status]),
                        !.at = IF status = NetworkError \/ ~Ok(status) THEN "thrown"
                               ELSE "returned",
                        !.text = IF status # NetworkError /\ Ok(status) THEN "master" ELSE @]
    /\ UNCHANGED <<mainVars, walkCall, route, listCall, detailCall, chunkCall>>

InitRaw ==
    /\ dbUrlSet = TRUE
    /\ faults = 0
    /\ upDocs = UpExample.docs /\ upSrc = UpExample.src /\ upTpl = UpExample.tpl
    /\ nodeDocs = EmptyTable
    /\ wfTemplates = EmptyTable
    /\ syncLog = <<>>
    /\ InitLocals
    /\ embedCall = Null /\ fetchCall = Null /\ statusReply = Null
    /\ walkCall = Null /\ route = Null /\ listCall = Null
    /\ detailCall = Null /\ chunkCall = Null
    /\ NoSides
    /\ hist = NoHistory
    /\ \E file \in RawFiles :
          rawCall = [repo |-> file.repo, path |-> file.path, at |-> "main",
                     requests |-> <<>>, text |-> NoString]

NextRaw ==
    \/ FetchRawMain
    \/ FetchRawMaster

SpecRaw == InitRaw /\ [][NextRaw]_vars

(***************************************************************************)
(* The dynamic registry: display info of a node type from the static map,  *)
(* the in-memory cache, the overview row of the store, or the type string  *)
(***************************************************************************)

MaxCalls == 4

RegTypes == { "n8n-nodes-base.slack", "n8n-nodes-base.cron", "n8n-nodes-base.notion" }

NodeTypeInfo(label, category, icon, color, description) ==
    [label |-> label, category |-> category, icon |-> icon, color |-> color,
     description |-> description]

\* the entries of NODE_REGISTRY among the types looked up
NODE_REGISTRY ==
    [t \in { "n8n-nodes-base.slack" } |->
        NodeTypeInfo("Slack", "output", "MessageSquare", "#e11d48", "Send messages to Slack")]

CATEGORY_COLORS ==
    [c \in { "trigger", "action", "logic", "output" } |->
        CASE c = "trigger" -> "#6366f1"
          [] c = "action"  -> "#f59e0b"
          [] c = "logic"   -> "#10b981"
          [] c = "output"  -> "#e11d48"]

\* metadata.category of a row: absent, or one of the categories the parser
\* of the node sources gives
RawCategories == { NoString, "trigger", "transform" }

mapCategory(raw) ==
    CASE raw = NoString -> "action"
      [] raw \in { "trigger", "schedule" } -> "trigger"
      [] raw \in { "logic", "transform" } -> "logic"
      [] raw = "output" -> "output"
      [] OTHER -> "action"

inferIcon(nodeType, category) ==
    CASE LastSegment(nodeType) = "cron"  -> "Clock"
      [] LastSegment(nodeType) = "slack" -> "MessageSquare"
      [] category = "trigger" -> "Zap"
      [] category = "logic"   -> "GitBranch"
      [] category = "output"  -> "ArrowRight"
      [] OTHER -> "Box"

\* the last segment, camelCase to Title Case
formatNodeName(type) ==
    CASE type = "n8n-nodes-base.slack"  -> "Slack"
      [] type = "n8n-nodes-base.cron"   -> "Cron"
      [] type = "n8n-nodes-base.notion" -> "Notion"

\* the overview row of a type: display name, metadata.category and the
\* description line of its content
OverviewRow(displayName, category, description) ==
    [displayName |-> displayName, category |-> category, description |-> description]

OverviewRows(type) ==
    { OverviewRow(formatNodeName(type) \o " node", category, "Description of " \o type) :
        category \in RawCategories }

\* the info built from an overview row
StoreInfo(type, doc) ==
    LET category == mapCategory(doc.category)
    IN  NodeTypeInfo(doc.displayName, category, inferIcon(type, category),
                     CATEGORY_COLORS[category], doc.description)

\* the generic info derived from the type string
Fallback(type) == NodeTypeInfo(formatNodeName(type), "action", "Box", "#6b7280", type)

\* a resolver that asks the store before the static map and the cache
ResolveStoreFirst(type, cached, docs) ==
    IF docs # <<>> THEN [info |-> StoreInfo(type, docs[1]), set |-> TRUE]
    ELSE IF type \in DOMAIN NODE_REGISTRY THEN [info |-> NODE_REGISTRY[type], set |-> FALSE]
    ELSE IF cached # Null THEN [info |-> cached, set |-> FALSE]
    ELSE [info |-> Fallback(type), set |-> TRUE]

\* getNodeInfoDynamic: the info returned and whether it is put in the cache;
\* docs is the result of the store query, <<>> also when the query failed
Resolve(type, cached, docs) ==
    IF type \in DOMAIN NODE_REGISTRY THEN [info |-> NODE_REGISTRY[type], set |-> FALSE]
    ELSE IF cached # Null THEN [info |-> cached, set |-> FALSE]
    ELSE IF docs # <<>> THEN [info |-> StoreInfo(type, docs[1]), set |-> TRUE]
    ELSE [info |-> Fallback(type), set |-> TRUE]

\* the rows a select of the overview chunk of a type gives
SelectOverview(rows, type) == IF rows[type] = Null THEN <<>> ELSE << rows[type] >>

RegistryCall(call, type, info, out) ==
    [call |-> call, type |-> type, info |-> info, out |-> out,
     cacheBefore |-> registry.cache, rowsBefore |-> registry.rows]

GetNodeInfoDynamic ==
    /\ registry.calls < MaxCalls
    /\ \E type \in RegTypes, out \in { "ok", "throw" } :
          LET docs == IF out = "ok" THEN SelectOverview(registry.rows, type) ELSE <<>>
              r    == Resolve(type, registry.cache[type], docs)
          IN  registry' =
                [registry EXCEPT
                   !.calls = @ + 1,
                   !.cache = IF r.set THEN [@ EXCEPT ![type] = r.info] ELSE @,
                   !.reply = RegistryCall("getNodeInfoDynamic", type, r.info, out)]
    /\ UNCHANGED <<envVars, storeVars, runVars, tplVars, hist, lastQuery, embedCall,
                   fetchCall, statusReply, walkCall, route, listCall, detailCall,
                   rawCall, chunkCall, race, poller>>

GetNodeInfoCached ==
    /\ registry.calls < MaxCalls
    /\ \E type \in RegTypes :
          registry' =
            [registry EXCEPT
               !.calls = @ + 1,
               !.reply = RegistryCall("getNodeInfoCached", type,
                            IF type \in DOMAIN NODE_REGISTRY THEN NODE_REGISTRY[type]
                            ELSE IF registry.cache[type] # Null THEN registry.cache[type]
                            ELSE Fallback(type), "ok")]
    /\ UNCHANGED <<envVars, storeVars, runVars, tplVars, hist, lastQuery, embedCall,
                   fetchCall, statusReply, walkCall, route, listCall, detailCall,
                   rawCall, chunkCall, race, poller>>

\* the types warmNodeInfoCache sets: overview rows of types that are neither
\* in the static map nor in the cache
Warmed(rows, cache) ==
    { t \in RegTypes : rows[t] # Null /\ t \notin DOMAIN NODE_REGISTRY /\ cache[t] = Null }

WarmNodeInfoCache ==
    /\ registry.calls < MaxCalls
    /\ \E out \in { "ok", "throw" } :
          LET set == IF out = "ok" THEN Warmed(registry.rows, registry.cache) ELSE {}
          IN  registry' =
                [registry EXCEPT
                   !.calls = @ + 1,
                   !.cache = [t \in RegTypes |->
                                IF t \in set THEN StoreInfo(t, registry.rows[t]) ELSE @[t]],
                   !.warmedAt = IF out = "ok" THEN registry.rows ELSE @,
                   !.reply = RegistryCall("warmNodeInfoCache", NoString,
                                          [count |-> Cardinality(set)], out)]
    /\ UNCHANGED <<envVars, storeVars, runVars, tplVars, hist, lastQuery, embedCall,
                   fetchCall, statusReply, walkCall, route, listCall, detailCall,
                   rawCall, chunkCall, race, poller>>

\* an ingestion run stores the overview row of a type
OverviewStored ==
    /\ \E type \in RegTypes :
          /\ registry.rows[type] = Null
          /\ \E doc \in OverviewRows(type) :
                registry' = [registry EXCEPT !.rows[type] = doc]
    /\ UNCHANGED <<envVars, storeVars, runVars, tplVars, hist, lastQuery, embedCall,
                   fetchCall, statusReply, walkCall, route, listCall, detailCall,
                   rawCall, chunkCall, race, poller>>

\* module load: an empty cache; the store as the ingestion runs left it
InitRegistry ==
    /\ dbUrlSet = TRUE
    /\ faults = 0
    /\ upDocs = UpExample.docs /\ upSrc = UpExample.src /\ upTpl = UpExample.tpl
    /\ nodeDocs = EmptyTable
    /\ wfTemplates = EmptyTable
    /\ syncLog = <<>>
    /\ InitLocals
    /\ embedCall = Null /\ fetchCall = Null /\ statusReply = Null
    /\ walkCall = Null /\ route = Null /\ listCall = Null
    /\ detailCall = Null /\ rawCall = Null /\ chunkCall = Null
    /\ race = Null /\ poller = Null
    /\ hist = NoHistory
    /\ registry = [cache |-> [t \in RegTypes |-> Null],
                   rows |-> [t \in RegTypes |-> Null],
                   warmedAt |-> Null, reply |-> Null, calls |-> 0]

NextRegistry ==
    \/ GetNodeInfoDynamic
    \/ GetNodeInfoCached
    \/ WarmNodeInfoCache
    \/ OverviewStored

SpecRegistry == InitRegistry /\ [][NextRegistry]_vars

(***************************************************************************)
(* Two ingestion runs at once (a manual trigger and the scheduled one):    *)
(* each run has its own chunks, records and counters, the tables are       *)
(* shared, and every delete and insert is a statement of its own           *)
(***************************************************************************)

RunIds == { 1, 2 }

\* what both runs build from the same upstream
RaceChunks  == BuildAllChunks(UpLong.docs, UpLong.src)
RaceRecords ==
    LET sums == fetchTemplateList(UpLong.tpl, 0, 0)
    IN  BuildRecords(sums, Fulfilled(DetailResults(sums, {})))

\* the locals of one run
RaceRun(at) ==
    [at |-> at, idx |-> 1, tIdx |-> 1, errors |-> <<>>, tErrors |-> <<>>,
     chunksCreated |-> 0, templatesProcessed |-> 0, rejected |-> {}, inserted |-> {}]

\* runIngestion is called: the run reaches its upsert loop
RaceStart ==
    /\ \E r \in RunIds :
          /\ race[r].at = "idle"
          /\ race' = [race EXCEPT ![r] = RaceRun("delete")]
    /\ UNCHANGED <<envVars, storeVars, runVars, tplVars, hist, lastQuery, embedCall,
                   fetchCall, statusReply, walkCall, route, listCall, detailCall,
                   rawCall, chunkCall, registry, poller>>

\* await ingestionDb.delete(nodeDocs).where(...)
RaceDelete ==
    /\ \E r \in RunIds :
          /\ race[r].at = "delete"
          /\ nodeDocs' = DeleteNodeDoc(nodeDocs, RaceChunks[race[r].idx])
          /\ race' = [race EXCEPT ![r].at = "insert"]
    /\ UNCHANGED <<envVars, wfTemplates, syncLog, runVars, tplVars, hist, lastQuery,
                   embedCall, fetchCall, statusReply, walkCall, route, listCall,
                   detailCall, rawCall, chunkCall, registry, poller>>

\* await rawSql`INSERT INTO node_docs ...`; chunksCreated++
RaceInsert ==
    /\ \E r \in RunIds :
          /\ race[r].at = "insert"
          /\ LET chunk == RaceChunks[race[r].idx]
             IN  nodeDocs' = InsertRow(nodeDocs, NodeDocRow(chunk, Embed(chunk.content)))
          /\ race' = [race EXCEPT
                         ![r].chunksCreated = @ + 1,
                         ![r].idx = @ + 1,
                         ![r].at = IF race[r].idx + 1 > Len(RaceChunks)
                                   THEN "tDelete" ELSE "delete"]
    /\ UNCHANGED <<envVars, wfTemplates, syncLog, runVars, tplVars, hist, lastQuery,
                   embedCall, fetchCall, statusReply, walkCall, route, listCall,
                   detailCall, rawCall, chunkCall, registry, poller>>

\* await ingestionDb.delete(workflowTemplates).where(...)
RaceTemplateDelete ==
    /\ \E r \in RunIds :
          /\ race[r].at = "tDelete"
          /\ wfTemplates' = DeleteTemplate(wfTemplates, RaceRecords[race[r].tIdx])
          /\ race' = [race EXCEPT ![r].at = "tInsert"]
    /\ UNCHANGED <<envVars, nodeDocs, syncLog, runVars, tplVars, hist, lastQuery,
                   embedCall, fetchCall, statusReply, walkCall, route, listCall,
                   detailCall, rawCall, chunkCall, registry, poller>>

\* await rawSql`INSERT INTO workflow_templates ...`; templatesProcessed++,
\* or the catch of the record when the store rejects the row
RaceTemplateInsert ==
    /\ \E r \in RunIds :
          /\ race[r].at = "tInsert"
          /\ LET record == RaceRecords[race[r].tIdx]
                 next   == IF race[r].tIdx + 1 > Len(RaceRecords) THEN "done" ELSE "tDelete"
             IN  IF ~UniqueViolation(wfTemplates, record)
                 THEN /\ wfTemplates' = InsertRow(wfTemplates,
                                                  TemplateRow(record, Embed(record.content)))
                      /\ race' = [race EXCEPT
                                     ![r].templatesProcessed = @ + 1,
                                     ![r].inserted = @ \cup { record.templateId },
                                     ![r].tIdx = @ + 1,
                                     ![r].at = next]
                 ELSE /\ \E errLen \in DriverErrorLengths :
                            race' = [race EXCEPT
                                       ![r].tErrors =
                                           Append(@, TemplateUpsertFailed(record, errLen)),
                                       ![r].rejected = @ \cup { record.templateId },
                                       ![r].tIdx = @ + 1,
                                       ![r].at = next]
                      /\ UNCHANGED wfTemplates
    /\ UNCHANGED <<envVars, nodeDocs, syncLog, runVars, tplVars, hist, lastQuery,
                   embedCall, fetchCall, statusReply, walkCall, route, listCall,
                   detailCall, rawCall, chunkCall, registry, poller>>

\* no run has been started; the tables are empty or hold what an earlier
\* run stored
InitRace ==
    /\ dbUrlSet = TRUE
    /\ faults = 0
    /\ upDocs = UpLong.docs /\ upSrc = UpLong.src /\ upTpl = UpLong.tpl
    /\ \E stored \in BOOLEAN :
          /\ nodeDocs = IF stored THEN StoredDocs(UpLong) ELSE EmptyTable
          /\ wfTemplates = IF stored THEN StoredTemplates(UpLong) ELSE EmptyTable
    /\ syncLog = <<>>
    /\ InitLocals
    /\ embedCall = Null /\ fetchCall = Null /\ statusReply = Null
    /\ walkCall = Null /\ route = Null /\ listCall = Null
    /\ detailCall = Null /\ rawCall = Null /\ chunkCall = Null
    /\ registry = Null /\ poller = Null
    /\ hist = NoHistory
    /\ race = [r \in RunIds |-> RaceRun("idle")]

NextRace ==
    \/ RaceStart
    \/ RaceDelete
    \/ RaceInsert
    \/ RaceTemplateDelete
    \/ RaceTemplateInsert

SpecRace == InitRace /\ [][NextRace]_vars

(***************************************************************************)
(* The execution poller: runWorkflow starts an execution and an interval   *)
(* timer whose callback fetches the execution and awaits the response      *)
(***************************************************************************)

MaxExecutions == 3

\* what GET /api/execute/:id gives a poll: no usable response, or the
\* execution, running or finished
PollResponses ==
    { [ok |-> FALSE, finished |-> FALSE, status |-> "running"],
      [ok |-> TRUE, finished |-> FALSE, status |-> "running"],
      [ok |-> TRUE, finished |-> TRUE, status |-> "success"],
      [ok |-> TRUE, finished |-> TRUE, status |-> "failed"] }

\* what POST /api/execute gives runWorkflow
PostResponses == { "failed", "activated", "started" }

\* stopPolling(): the timer in pollingInterval is cleared, whoever calls
stopPolling(p, caller) ==
    IF p.pollingInterval # Null
    THEN [p EXCEPT !.timers = @ \ { p.pollingInterval.timer },
                   !.stops = @ \cup { << caller, p.pollingInterval.timer >> },
                   !.pollingInterval = Null]
    ELSE p

\* startPolling(executionId): the old timer is cleared, a new one is set
startPolling(p, executionId) ==
    [p EXCEPT !.timers = (IF p.pollingInterval # Null
                          THEN @ \ { p.pollingInterval.timer } ELSE @)
                             \cup { executionId },
              !.pollingInterval = [timer |-> executionId]]

\* store.startExecution("pending") and the POST is sent
RunWorkflow ==
    /\ poller.posting = FALSE
    /\ poller.executions < MaxExecutions
    /\ poller' = [poller EXCEPT !.posting = TRUE,
                                !.executionId = 0,
                                !.executionStatus = "running"]
    /\ UNCHANGED <<envVars, storeVars, runVars, tplVars, hist, lastQuery, embedCall,
                   fetchCall, statusReply, walkCall, route, listCall, detailCall,
                   rawCall, chunkCall, registry, race>>

\* the POST is answered: finishExecution on failure or without an execution
\* id, otherwise startExecution(id) and startPolling(id)
RunWorkflowPosted ==
    /\ poller.posting = TRUE
    /\ \E response \in PostResponses :
          poller' =
            CASE response = "failed" ->
                   [poller EXCEPT !.posting = FALSE, !.executionStatus = "error"]
              [] response = "activated" ->
                   [poller EXCEPT !.posting = FALSE, !.executionStatus = "idle"]
              [] response = "started" ->
                   LET id == poller.executions + 1
                   IN  startPolling([poller EXCEPT !.posting = FALSE,
                                                   !.executions = id,
                                                   !.executionId = id,
                                                   !.executionStatus = "running"], id)
    /\ UNCHANGED <<envVars, storeVars, runVars, tplVars, hist, lastQuery, embedCall,
                   fetchCall, statusReply, walkCall, route, listCall, detailCall,
                   rawCall, chunkCall, registry, race>>

\* a live timer fires: its callback sends the fetch of its execution
PollTick ==
    /\ \E timer \in poller.timers :
          /\ timer \notin poller.inFlight
          /\ poller' = [poller EXCEPT !.inFlight = @ \cup { timer }]
    /\ UNCHANGED <<envVars, storeVars, runVars, tplVars, hist, lastQuery, embedCall,
                   fetchCall, statusReply, walkCall, route, listCall, detailCall,
                   rawCall, chunkCall, registry, race>>

\* the fetch of a callback is answered: a finished execution stops the
\* polling and sets the status of the store (history: stops holds who
\* stopped which timer, sets who set the status and which execution was the
\* latest one polled by then)
PollAnswered ==
    /\ \E executionId \in poller.inFlight, response \in PollResponses :
          LET p == [poller EXCEPT !.inFlight = @ \ { executionId }]
          IN  poller' =
                IF response.ok /\ response.finished
                THEN [stopPolling(p, executionId) EXCEPT
                        !.executionStatus =
                            IF response.status = "success" THEN "success" ELSE "error",
                        !.sets = @ \cup { << executionId, p.executions >> }]
                ELSE p
    /\ UNCHANGED <<envVars, storeVars, runVars, tplVars, hist, lastQuery, embedCall,
                   fetchCall, statusReply, walkCall, route, listCall, detailCall,
                   rawCall, chunkCall, registry, race>>

\* module load: no timer, the store idle
InitPoller ==
    /\ dbUrlSet = TRUE
    /\ faults = 0
    /\ upDocs = UpExample.docs /\ upSrc = UpExample.src /\ upTpl = UpExample.tpl
    /\ nodeDocs = EmptyTable
    /\ wfTemplates = EmptyTable
    /\ syncLog = <<>>
    /\ InitLocals
    /\ embedCall = Null /\ fetchCall = Null /\ statusReply = Null
    /\ walkCall = Null /\ route = Null /\ listCall = Null
    /\ detailCall = Null /\ rawCall = Null /\ chunkCall = Null
    /\ registry = Null /\ race = Null
    /\ hist = NoHistory
    /\ poller = [pollingInterval |-> Null, timers |-> {}, inFlight |-> {},
                 posting |-> FALSE, executions |-> 0,
                 executionId |-> Null, executionStatus |-> "idle",
                 stops |-> {}, sets |-> {}]

NextPoller ==
    \/ RunWorkflow
    \/ RunWorkflowPosted
    \/ PollTick
    \/ PollAnswered

SpecPoller == InitPoller /\ [][NextPoller]_vars

(***************************************************************************)
(* Properties                                                              *)
(***************************************************************************)

Returned == pc = "done"

HasError(errs, msg) == \E k \in 1..Len(errs) : errs[k].msg = msg

\* the number of stored rows under a key
DocRowCount(table, key) == Cardinality({ m \in Copies(table) : DocKey(m[1]) = key })

TplRowCount(table, id) == Cardinality({ m \in Copies(table) : TplKey(m[1]) = id })

DocKeys == NodeTypes \X ChunkTypes

\* C1: on every return path of runIngestion (the normal return and the
\* catch-all) the returned success flag is true exactly when the returned
\* errors list is empty.
C1_SuccessIffNoErrors ==
    Returned => (result.success <=> result.errors = <<>>)

\* a run that returned through the catch-all
C1_Witness_CatchAllReturn ==
    /\ Returned
    /\ ~hist.bInvoked
    /\ ~result.success
    /\ HasError(result.errors, "Embedding request failed")

\* C2: runIngestion always resolves with a structured result; no failure of a
\* fetch, of the embedding call, of a store operation, of the store
\* configuration or of a ledger write leaves it as an exception.
C2_NeverThrows ==
    /\ pc # "thrown"
    /\ Returned => DOMAIN result = { "success", "nodesProcessed", "chunksCreated",
                                     "templatesProcessed", "errors" }

\* a run that returned although the store is not configured
C2_Witness_ConfigFailureReturned ==
    /\ Returned
    /\ ~dbUrlSet
    /\ HasError(result.errors, "DATABASE_URL is not set")

\* C3: in every run of runIngestion the template ingestion is invoked after
\* the origin-A part ends, also when the embedding call or the store setup of
\* origin A throws.
C3_TemplatesAlwaysInvoked ==
    Returned => hist.bInvoked

\* C4: after any sequence of non-overlapping runs, whatever the upstream data
\* and whichever deletes and inserts failed, node_docs holds at most one row
\* for every (nodeType, chunkType).
C4_AtMostOneRowPerKey ==
    pc \in { "idle", "done" } =>
        \A key \in DocKeys : DocRowCount(nodeDocs, key) <= 1

\* a second run over rows the first run stored, with a failed upsert
C4_Witness_SecondRunWithFailure ==
    /\ Returned
    /\ hist.runs >= 2
    /\ hist.docsAtStart # EmptyTable
    /\ nodeDocs # EmptyTable
    /\ HasError(result.errors, "Upsert failed")

\* C5: every key that has a row when a run starts has a row in every state
\* during and after that run, also when the insert fails after the delete.
C5_PreviousRowsStayQueryable ==
    /\ \A key \in DocKeys :
          DocRowCount(hist.docsAtStart, key) > 0 => DocRowCount(nodeDocs, key) > 0
    /\ \A r \in BagToSet(hist.tplAtStart) :
          TplRowCount(wfTemplates, r.templateId) > 0

\* C6: every stored content is at most MAX_CONTENT_LENGTH long (2000 for
\* documentation chunks, 3000 for templates).
C6_StoredContentWithinCap ==
    /\ \A r \in BagToSet(nodeDocs) : r.content.len <= MAX_CONTENT_LENGTH
    /\ \A r \in BagToSet(wfTemplates) : r.content.len <= TEMPLATE_MAX_CONTENT_LENGTH

\* both this run and the one before it ran without any failure, on the same
\* upstream data
SecondCleanRun ==
    /\ Returned
    /\ hist.prev # Null
    /\ hist.prev.clean
    /\ faults = hist.faultsAtStart
    /\ hist.prev.up = hist.upAtStart

\* C7: a second run on unchanged upstream data, without failures, leaves the
\* store with the same keys, row count and content per key as the first.
C7_Idempotent ==
    SecondCleanRun =>
        /\ nodeDocs = hist.prev.nodeDocs
        /\ wfTemplates = hist.prev.wfTemplates

C7_Witness_SecondCleanRun ==
    /\ SecondCleanRun
    /\ BagCardinality(nodeDocs) >= 3
    /\ wfTemplates # EmptyTable

\* C8: getNodeDocsByType(k) returns zero rows if and only if no run has ever
\* written a row under k.
C8_ZeroRowsIffNeverWritten ==
    \A k \in NodeTypes :
        (getNodeDocsByType(nodeDocs, k) = {}) <=> (k \notin hist.everWritten)

QueriedTable == IF lastQuery.table = "node_docs" THEN nodeDocs ELSE wfTemplates

\* C9: findRelevantNodeDocs / findRelevantTemplates return at most limit rows,
\* each with similarity strictly above minSimilarity, in non-increasing order
\* of similarity, each a stored row (returned no more often than it is
\* stored); an empty store gives an empty result.
C9_RetrievalResult ==
    lastQuery # Null =>
        LET res == lastQuery.results
        IN  /\ Len(res) <= lastQuery.limit
            /\ \A k \in 1..Len(res) : res[k].similarity > lastQuery.minSimilarity
            /\ \A j, k \in 1..Len(res) : j < k => res[j].similarity >= res[k].similarity
            /\ \A k \in 1..Len(res) :
                  /\ res[k].row \in BagToSet(QueriedTable)
                  /\ Cardinality({ j \in 1..Len(res) : res[j].row = res[k].row })
                        <= CopiesIn(res[k].row, QueriedTable)
            /\ QueriedTable = EmptyTable => res = <<>>

\* a query cut by the limit, with rows of different similarity, on a store
\* that also holds a row at or below the threshold
C9_Witness_LimitAndThreshold ==
    /\ lastQuery # Null
    /\ lastQuery.limit = 2
    /\ Len(lastQuery.results) = 2
    /\ lastQuery.results[1].similarity > lastQuery.results[2].similarity
    /\ \E r \in BagToSet(QueriedTable) :
          Similarity(r.embedding, lastQuery.queryEmbedding) = lastQuery.minSimilarity
    /\ Cardinality(Copies(QueriedTable)) > 3

\* the template ids the search returns when no page request fails
ListedIds == LET sums == fetchTemplateList(upTpl, 0, 0)
             IN  { sums[k].id : k \in 1..Len(sums) }

\* the only failures injected in this run are failed detail requests
OnlyDetailFetchesFailed ==
    /\ Returned
    /\ hist.bInvoked
    /\ hist.fetchFailed # {}
    /\ Cardinality(hist.fetchFailed) = hist.faultsAtStart - faults

\* C10: when the detail request of a template fails, every other template of
\* the same batch and of the later batches is still fetched, built, embedded
\* and stored.
C10_DetailFailureIsolated ==
    OnlyDetailFetchesFailed =>
        /\ \A id \in ListedIds \ hist.fetchFailed :
              TplRowCount(wfTemplates, id) = 1
        /\ result.templatesProcessed = Cardinality(ListedIds \ hist.fetchFailed)

\* a failure in the first batch of five, with the second batch stored
C10_Witness_FirstBatchFailure ==
    /\ OnlyDetailFetchesFailed
    /\ hist.runs = 1
    /\ 201 \in hist.fetchFailed
    /\ TplRowCount(wfTemplates, 202) = 1
    /\ TplRowCount(wfTemplates, 207) = 1

\* C11: a run in which any unit failed (a tree listing or file fetch, a
\* template search page, a template detail fetch, a record upsert) has that
\* failure in its errors list and so reports success = false.
C11_UnitFailureReported ==
    (Returned /\ hist.unitFailed # {}) => ~result.success

\* the ids of a list of summaries or details
Ids(list) == { list[k].id : k \in 1..Len(list) }

NoIdTwice(list) == \A j, k \in 1..Len(list) : j < k => list[j].id # list[k].id

\* every summary the search serves, the category-filtered phase first
ServedSummaries == Flatten(upTpl.aiPages) \o Flatten(upTpl.generalPages)

FirstServed(id) ==
    ServedSummaries[CHOOSE k \in 1..Len(ServedSummaries) :
                        /\ ServedSummaries[k].id = id
                        /\ \A m \in 1..(k - 1) : ServedSummaries[m].id # id]

\* C12: a template id served by both search phases is kept once, as its first
\* occurrence; the run makes one detail fetch and stores one row for it.
C12_FirstOccurrenceOnly ==
    /\ NoIdTwice(summaries)
    /\ NoIdTwice(details)
    /\ \A j, k \in 1..Len(records) : j < k => records[j].templateId # records[k].templateId
    /\ "page" \notin hist.unitFailed =>
          \A k \in 1..Len(summaries) : summaries[k] = FirstServed(summaries[k].id)
    /\ \A id \in Ids(ServedSummaries) : TplRowCount(wfTemplates, id) <= 1

\* a run over a search that serves id 202 in both phases, with its row stored
C12_Witness_DuplicateAcrossPhases ==
    /\ Returned
    /\ \E j, k \in 1..Len(ServedSummaries) :
          /\ j < k
          /\ ServedSummaries[j].id = 202
          /\ ServedSummaries[k].id = 202
          /\ ServedSummaries[j] # ServedSummaries[k]
    /\ TplRowCount(wfTemplates, 202) = 1
    /\ result.templatesProcessed = Cardinality(Ids(ServedSummaries))

\* C13: for a list of texts of any length, also above the batch size of 512,
\* generateEmbeddings returns a list of the same length whose i-th vector is
\* the embedding of the i-th text.
C13_EmbeddingsInOrder ==
    (embedCall # Null /\ embedCall.result # Null /\ embedCall.result.ok) =>
        /\ Len(embedCall.result.vectors) = Len(embedCall.texts)
        /\ \A i \in 1..Len(embedCall.texts) :
              embedCall.result.vectors[i] = Embed(embedCall.texts[i])

\* a call with more than two full batches and a partial last batch
C13_Witness_ThreeBatches ==
    /\ embedCall # Null
    /\ embedCall.result # Null
    /\ embedCall.result.ok
    /\ NumBatches(embedCall.texts) = 3
    /\ Len(embedCall.texts) % BATCH_SIZE # 0
    /\ \E i \in 1..Len(embedCall.texts) :
          embedCall.result.vectors[i] # embedCall.result.vectors[1]

\* C14: within one source's ingestion no row is deleted or inserted before
\* the embedding call for that source has succeeded; when it fails, the run
\* reports success = false with the embedding error and has written no row
\* for that source.
C14_NoWriteBeforeEmbeddings ==
    /\ pc \in { "fetch", "noChunks", "embed", "catch" } => nodeDocs = hist.docsAtStart
    /\ pc \in { "delete", "insert" } =>
          /\ allChunks # <<>>
          /\ Len(embeddings) = Len(allChunks)
    /\ tpc \in { "list", "details", "tEmbed", "tCatch" } => wfTemplates = hist.tplAtStart
    /\ tpc \in { "tDelete", "tInsert" } =>
          /\ records # <<>>
          /\ Len(tEmbeddings) = Len(records)
    /\ (Returned /\ "github-docs" \in hist.embedFailed) =>
          /\ ~result.success
          /\ HasError(result.errors, "Embedding request failed")
          /\ result.chunksCreated = 0
          /\ nodeDocs = hist.docsAtStart
    /\ (Returned /\ "n8n-templates" \in hist.embedFailed) =>
          /\ ~result.success
          /\ HasError(result.errors, "[templates] Embedding request failed")
          /\ result.templatesProcessed = 0
          /\ wfTemplates = hist.tplAtStart

\* a run whose template embedding call failed after its documentation rows
\* were written
C14_Witness_TemplateEmbeddingFailed ==
    /\ Returned
    /\ "n8n-templates" \in hist.embedFailed
    /\ result.chunksCreated > 0
    /\ nodeDocs # hist.docsAtStart

FetchRunning == fetchCall # Null /\ fetchCall.state = "running"

LastResponse == fetchCall.responses[Len(fetchCall.responses)]

FetchWithinRetryPolicy ==
    fetchCall # Null =>
        /\ Len(fetchCall.responses) <= MAX_RETRIES + 1
        /\ \A k \in 1..(Len(fetchCall.responses) - 1) :
              fetchCall.responses[k] = TooManyRequests
        /\ fetchCall.state = "running" =>
              /\ Len(fetchCall.responses) <= MAX_RETRIES
              /\ fetchCall.responses # <<>> => LastResponse = TooManyRequests
        /\ fetchCall.state = "returned" =>
              /\ fetchCall.responses # <<>>
              /\ Ok(LastResponse)
        /\ fetchCall.state = "failed" =>
              /\ fetchCall.responses # <<>>
              /\ ~Ok(LastResponse)
              /\ LastResponse = TooManyRequests => Len(fetchCall.responses) = MAX_RETRIES + 1

\* C15: for one URL fetchWithRetry issues at most MAX_RETRIES + 1 = 4
\* requests, a further one only after a 429; any other non-2xx response fails
\* at once, the fourth 429 in a row fails, and the call always ends, with a
\* 2xx response or an error.
C15_BoundedRetry ==
    /\ []FetchWithinRetryPolicy
    /\ (FetchRunning ~> ~FetchRunning)

\* a call that failed on its fourth 429
C15_Witness_FourthTooManyRequests ==
    /\ fetchCall # Null
    /\ fetchCall.state = "failed"
    /\ Len(fetchCall.responses) = MAX_RETRIES + 1
    /\ LastResponse = TooManyRequests

\* the diagnostics of failed upserts in an errors list
UpsertErrors(errs, msg) == { k \in 1..Len(errs) : errs[k].msg = msg }

\* C16: in the upsert stage a failed delete or insert of one record adds
\* exactly one truncated diagnostic and does not stop the stage: every record
\* is attempted, and is either stored or has its one diagnostic.
C16_UpsertFailureIsolated ==
    /\ pc \in { "delete", "insert" } =>
          /\ idx \in 1..Len(allChunks)
          /\ chunksCreated + Cardinality(UpsertErrors(errors, "Upsert failed")) = idx - 1
    /\ pc = "log" =>
          chunksCreated + Cardinality(UpsertErrors(errors, "Upsert failed")) = Len(allChunks)
    /\ tpc \in { "tDelete", "tInsert" } =>
          /\ tIdx \in 1..Len(records)
          /\ tProcessed + Cardinality(UpsertErrors(tErrors, "Upsert failed for template"))
                = tIdx - 1
    /\ tpc = "tLog" =>
          tProcessed + Cardinality(UpsertErrors(tErrors, "Upsert failed for template"))
                = Len(records)
    /\ \A k \in UpsertErrors(errors, "Upsert failed") : errors[k].len <= SHORT_ERR + 1
    /\ \A k \in UpsertErrors(tErrors, "Upsert failed for template") :
          tErrors[k].len <= SHORT_ERR + 1
    /\ pc \in { "catch", "thrown" } => UpsertErrors(errors, "Upsert failed") = {}
    /\ tpc \in { "tCatch", "thrown" } =>
          UpsertErrors(tErrors, "Upsert failed for template") = {}
    /\ "upsert" \in hist.unitFailed =>
          UpsertErrors(errors, "Upsert failed") # {}
            \/ UpsertErrors(tErrors, "Upsert failed for template") # {}
            \/ Returned

\* the upsert loop of the documentation ended after a failed record, with a
\* later record stored and a long driver message cut
C16_Witness_LaterRecordStored ==
    /\ pc = "log"
    /\ Len(allChunks) >= 3
    /\ \E k \in UpsertErrors(errors, "Upsert failed") :
          /\ errors[k].ref = DocKey(allChunks[1])
          /\ errors[k].len = SHORT_ERR + 1
    /\ chunksCreated = Len(allChunks) - 1

\* this run repeats a clean run on the same upstream data, and nothing but
\* its ledger writes failed
OnlyLedgerWritesFailed ==
    /\ Returned
    /\ hist.prev # Null
    /\ hist.prev.clean
    /\ hist.prev.up = hist.upAtStart
    /\ hist.ledgerFaults > 0
    /\ hist.faultsAtStart - faults = hist.ledgerFaults

\* C18: a failing ledger write is not raised and never masks the ingestion
\* result: a run whose ledger writes fail returns the same result (success,
\* counts, errors) as the run on the same upstream data and store behaviour
\* whose ledger writes succeeded.
C18_LedgerFailureNotMasking ==
    /\ hist.ledgerFaults > 0 => pc # "thrown" /\ tpc # "thrown"
    /\ OnlyLedgerWritesFailed => result = hist.prev.result

\* the ledger write of a run with stored rows failed: no entry was added
C18_Witness_LedgerWriteFailed ==
    /\ OnlyLedgerWritesFailed
    /\ result.success
    /\ result.nodesProcessed > 0
    /\ Len(syncLog) = 3

LedgerStep ==
    /\ Len(syncLog') \in { Len(syncLog), Len(syncLog) + 1 }
    /\ SubSeq(syncLog', 1, Len(syncLog)) = syncLog

\* C17: the ledger is append-only: across runs and status queries every step
\* leaves the ledger as it is or adds one entry at its end; no entry is ever
\* changed or removed.
C17_LedgerAppendOnly == [][LedgerStep]_vars

\* two runs have written their entries and the status has been queried
C17_Witness_TwoRunsLogged ==
    /\ Returned
    /\ hist.runs = 2
    /\ Len(syncLog) >= 4
    /\ statusReply # Null
    /\ hist.ledgerAsked # <<>>

Sources == { "github-docs", "n8n-templates" }

ReplyFor(source) ==
    IF source = "github-docs" THEN statusReply.lastSync ELSE statusReply.lastTemplateSync

EntriesAsked(source) ==
    { k \in 1..Len(hist.ledgerAsked) : hist.ledgerAsked[k].source = source }

\* the reply names, for a source, the entry of that source with the latest
\* timestamp
RepliesLatest(source) ==
    \E k \in EntriesAsked(source) :
        /\ \A j \in EntriesAsked(source) :
              hist.ledgerAsked[k].syncedAt >= hist.ledgerAsked[j].syncedAt
        /\ ReplyFor(source).syncedAt = hist.ledgerAsked[k].syncedAt
        /\ ReplyFor(source).status = hist.ledgerAsked[k].status
        /\ ReplyFor(source).processed = hist.ledgerAsked[k].nodesProcessed
        /\ ReplyFor(source).error = hist.ledgerAsked[k].error

\* C19 as stated: the status query returns for each source its entry with the
\* latest timestamp, and null exactly when the source has no entry.
C19_NullIffNoEntry ==
    statusReply # Null =>
        \A source \in Sources :
            /\ ReplyFor(source) = Null <=> EntriesAsked(source) = {}
            /\ ReplyFor(source) # Null => RepliesLatest(source)

\* C19, amended: when the ledger can be read, the status query returns for
\* each source its entry with the latest timestamp, and null exactly when the
\* source has no entry; when the read fails it returns null for both sources
\* together with the message that the database is not configured.
C19_LatestEntryOrUnavailable ==
    statusReply # Null =>
        IF statusReply.failed
        THEN /\ statusReply.lastSync = Null
             /\ statusReply.lastTemplateSync = Null
             /\ statusReply.message = "Database not configured yet."
        ELSE \A source \in Sources :
                /\ ReplyFor(source) = Null <=> EntriesAsked(source) = {}
                /\ ReplyFor(source) # Null => RepliesLatest(source)

\* a query answered from a ledger with two entries of one source
C19_Witness_LatestOfTwo ==
    /\ statusReply # Null
    /\ ~statusReply.failed
    /\ Cardinality(EntriesAsked("github-docs")) = 2
    /\ statusReply.lastSync # Null
    /\ statusReply.lastSync.syncedAt > 1
    /\ statusReply.lastTemplateSync = Null

\* C20: when the store is not configured the run aborts before doing any
\* work: nothing is fetched from upstream and no embedding is computed in
\* that run.
C20_NoWorkWithoutStore ==
    ~dbUrlSet =>
        /\ allChunks = <<>>
        /\ embeddings = <<>>
        /\ summaries = <<>>
        /\ details = <<>>
        /\ tEmbeddings = <<>>

\* the nodes and connections the detail endpoint serves for a template
ServedPayload(id) == DetailOf(id).workflow.workflow

PassedThrough(id, workflowJson) ==
    /\ workflowJson.nodes = ServedPayload(id).nodes
    /\ IF ServedPayload(id).connections = Null
       THEN DOMAIN workflowJson.connections = {}
       ELSE workflowJson.connections = ServedPayload(id).connections

\* C21: the workflowJson built and stored for a template holds exactly the
\* nodes (same elements, same order, annotation nodes included) and the
\* connections the detail endpoint returned.
C21_PayloadPassThrough ==
    /\ \A k \in 1..Len(records) : PassedThrough(records[k].templateId, records[k].workflowJson)
    /\ \A r \in BagToSet(wfTemplates) : PassedThrough(r.templateId, r.workflowJson)

\* a stored template whose payload keeps the sticky note that its node types
\* leave out
C21_Witness_StickyNoteStored ==
    \E r \in BagToSet(wfTemplates) :
        /\ \E k \in 1..Len(r.workflowJson.nodes) : IsStickyNote(r.workflowJson.nodes[k].type)
        /\ \A k \in 1..Len(r.nodeTypes) : ~IsStickyNote(r.nodeTypes[k])
        /\ Len(r.workflowJson.nodes) = 4
        /\ ServedPayload(r.templateId).connections = Null

WalkReturned == walkCall.stack = <<>>

\* no node name is entered twice and none deeper than the cap
EnteredOnceWithinCap ==
    /\ \A j, k \in 1..Len(walkCall.entered) :
          walkCall.entered[j].node = walkCall.entered[k].node => j = k
    /\ \A k \in 1..Len(walkCall.entered) : walkCall.entered[k].depth <= MaxDepth
    /\ Len(walkCall.stack) <= MaxDepth + 2

\* the result of the finished walk is what buildFlowDescription computes
WalkResult ==
    WalkReturned =>
        buildFlowDescription(walkCall.nodes, walkCall.connections)
            = (IF Len(walkCall.flowParts) > 1 THEN walkCall.flowParts ELSE <<>>)

\* C22: buildFlowDescription terminates on every workflow graph, cycles
\* included: the walk enters each node name at most once, never at a depth
\* above 10, and returns.
C22_WalkTerminates == [](EnteredOnceWithinCap /\ WalkResult) /\ <>WalkReturned

\* the walk of two nodes connected to each other has returned, each entered
\* once
C22_Witness_TwoNodeCycle ==
    /\ WalkReturned
    /\ walkCall.connections = HookConnections
    /\ Len(walkCall.entered) = 2
    /\ walkCall.visited = { "Webhook", "Slack" }

\* the keys built in the current run, known once the chunks / records exist
BuiltDocKeys == { DocKey(allChunks[k]) : k \in 1..Len(allChunks) }
BuiltTemplateIds == { records[k].templateId : k \in 1..Len(records) }

\* C23: a run leaves unchanged every stored row whose key is not among the
\* keys built in that run: rows of entities that disappeared upstream are
\* neither deleted nor modified (and none is added under such a key).
C23_OrphanRowsUntouched ==
    /\ pc \in { "delete", "insert", "log" } =>
          \A r \in BagToSet(nodeDocs) \cup BagToSet(hist.docsAtStart) :
              DocKey(r) \notin BuiltDocKeys =>
                  CopiesIn(r, nodeDocs) = CopiesIn(r, hist.docsAtStart)
    /\ tpc \in { "tDelete", "tInsert", "tLog" } =>
          \A r \in BagToSet(wfTemplates) \cup BagToSet(hist.tplAtStart) :
              TplKey(r) \notin BuiltTemplateIds =>
                  CopiesIn(r, wfTemplates) = CopiesIn(r, hist.tplAtStart)

\* after the upsert loop of a run whose upstream lost a node: the node's rows
\* of the earlier run are still stored, next to rows written in this run
C23_Witness_OrphanKept ==
    /\ pc = "log"
    /\ chunksCreated > 0
    /\ \E r \in BagToSet(nodeDocs) :
          /\ r.nodeType \notin { allChunks[k].nodeType : k \in 1..Len(allChunks) }
          /\ CopiesIn(r, hist.docsAtStart) = 1
    /\ \E r \in BagToSet(nodeDocs) :
          /\ DocKey(r) \in BuiltDocKeys
          /\ r.chunkType \in { o.chunkType : o \in { x \in BagToSet(nodeDocs) :
                                    DocKey(x) \notin BuiltDocKeys } }

\* the request presented the CRON_SECRET bearer token
PresentsCronSecret(request) ==
    route.cronSecret # NoString /\ request.authorization = "Bearer " \o route.cronSecret

\* C24: /api/sync-docs is protected from unauthorized access: a POST starts
\* a run only with the CRON_SECRET bearer token or a valid sync key, every
\* other POST is answered 401 and starts no run, and a GET starts a run only
\* with the CRON_SECRET bearer token.
C24_OnlyAuthorizedStartRun ==
    route.last # Null =>
        /\ route.ran =>
              \/ PresentsCronSecret(route.last)
              \/ route.last.method = "POST" /\ route.last.syncKey \in SettingsPageKeys
        /\ (route.last.method = "POST" /\ ~route.ran) => route.status = 401

FilesLost == hist.lost.docs \cup hist.lost.src

\* the chunks of everything that was fetched
ChunksOfFetched ==
    BuildAllChunks([n \in NodeTypes |-> IF n \in hist.lost.docs THEN Null ELSE upDocs[n]],
                   [n \in NodeTypes |-> IF n \in hist.lost.src THEN Null ELSE upSrc[n]])

\* nothing failed in this run but the fetches of files
OnlyFilesLost == hist.faultsAtStart - faults = Cardinality(hist.lost.docs) + Cardinality(hist.lost.src)

\* C25: a missing tree listing or a failed file fetch is a soft failure: the
\* other files are still fetched and the run goes on to build the chunks of
\* what was fetched, to embed them and to upsert them.
C25_FetchFailureSoft ==
    (FilesLost # {} /\ pc \notin { "idle", "fetch", "done" }) =>
        /\ pc # "thrown"
        /\ pc \in { "embed", "delete", "insert", "log" } => allChunks = ChunksOfFetched
        /\ pc = "noChunks" => ChunksOfFetched = <<>>
        /\ (OnlyFilesLost /\ dbUrlSet) =>
              /\ pc # "catch"
              /\ pc \in { "delete", "insert", "log" } => Len(embeddings) = Len(allChunks)
              /\ pc = "log" =>
                    /\ chunksCreated = Len(allChunks)
                    /\ \A k \in 1..Len(allChunks) :
                          \E r \in BagToSet(nodeDocs) : DocKey(r) = DocKey(allChunks[k])

\* the documentation file of a node could not be fetched, its source file
\* could: the node's chunks were built from the source alone and upserted
C25_Witness_DocLostSourceKept ==
    /\ pc = "log"
    /\ OnlyFilesLost
    /\ hist.lost.docs = { Slack }
    /\ upSrc[Slack] # Null
    /\ chunksCreated = Len(allChunks)
    /\ chunksCreated > 0

\* the requests of one phase, as positions of the request log
RequestsOf(phase) ==
    { k \in 1..Len(listCall.requests) : listCall.requests[k].phase = phase }

\* the phase requested pages 1, 2, ... up to its maximum, and none after a
\* page that came back empty or failed
PhaseInOrder(phase, maxPages) ==
    LET ks == RequestsOf(phase)
    IN  /\ Cardinality(ks) <= maxPages
        /\ \A k \in ks :
              /\ listCall.requests[k].page = Cardinality({ j \in ks : j <= k })
              /\ (~listCall.requests[k].response.ok
                    \/ listCall.requests[k].response.workflows = <<>>)
                 => \A j \in ks : j <= k

\* C26: within a phase no page is requested after an empty page; the
\* category phase requests at most 4 pages and comes first; the general
\* phase requests at most 2 pages and is run even when the first phase
\* stopped early or failed.
C26_PagesInOrder ==
    /\ PhaseInOrder("ai", 4)
    /\ PhaseInOrder("general", 2)
    /\ \A a \in RequestsOf("ai"), g \in RequestsOf("general") : a < g
    /\ RequestsOf("ai") \cup RequestsOf("general") = 1..Len(listCall.requests)
    /\ listCall.phase \in { "general", "returned" } => RequestsOf("ai") # {}
    /\ listCall.phase = "returned" => RequestsOf("general") # {}

\* the first category page failed, the general phase still requested its two
\* pages
C26_Witness_GeneralAfterFailure ==
    /\ listCall.phase = "returned"
    /\ Len(listCall.requests) = 3
    /\ ~listCall.requests[1].response.ok
    /\ listCall.requests[2].phase = "general"
    /\ listCall.requests[3].page = 2
    /\ listCall.requests[3].response.workflows = <<>>

\* the batch a summary belongs to (batches and positions from 0)
BatchNumber(j) == j \div 5

\* C27: at most 5 detail fetches are in flight at any instant; a fetch of
\* batch k+1 starts only after every fetch of batch k has settled and the
\* inter-batch delay has elapsed; no delay follows the last batch.
C27_BoundedConcurrency ==
    /\ Cardinality(detailCall.inFlight) <= 5
    /\ \A j \in DOMAIN detailCall.started :
          /\ \A e \in 0..(detailCall.length - 1) :
                BatchNumber(e) < BatchNumber(j) => e \in detailCall.started[j].settledBefore
          /\ Len(detailCall.started[j].slept) = BatchNumber(j)
    /\ \A k \in 1..Len(detailCall.slept) : detailCall.slept[k] = 300
    /\ detailCall.at = "returned" =>
          /\ detailCall.settled = 0..(detailCall.length - 1)
          /\ Len(detailCall.slept) = Max((detailCall.length + 4) \div 5 - 1, 0)

\* eleven summaries were fetched in three batches, with two delays
C27_Witness_ThreeBatchesTwoDelays ==
    /\ detailCall.at = "returned"
    /\ detailCall.length = 11
    /\ Len(detailCall.slept) = 2
    /\ detailCall.started[10].settledBefore = 0..9

\* the attempt was answered with a 2xx status
Succeeded(request) == request.status # NetworkError /\ Ok(request.status)

\* C28: fetchRawFile requests main first and master only when the first
\* attempt failed, returns the content of the first attempt that succeeds,
\* and declares the file unfetchable only after both attempts failed.
C28_MainThenMaster ==
    /\ Len(rawCall.requests) <= 2
    /\ Len(rawCall.requests) >= 1 => rawCall.requests[1].branch = "main"
    /\ Len(rawCall.requests) = 2 =>
          /\ rawCall.requests[2].branch = "master"
          /\ ~Succeeded(rawCall.requests[1])
    /\ rawCall.at = "returned" =>
          /\ Succeeded(rawCall.requests[Len(rawCall.requests)])
          /\ rawCall.text = rawCall.requests[Len(rawCall.requests)].branch
    /\ rawCall.at = "thrown" =>
          /\ Len(rawCall.requests) = 2
          /\ ~Succeeded(rawCall.requests[1])
          /\ ~Succeeded(rawCall.requests[2])

\* the chunks returned by the call of createNodeChunks
ChunksReturned == chunkCall.result.chunks

KindsReturned == { ChunksReturned[k].chunkType : k \in 1..Len(ChunksReturned) }

SourceHasParameters ==
    chunkCall.sourceInfo # Null /\ chunkCall.sourceInfo.properties > 0
DocHasParameterSection ==
    /\ chunkCall.docContent # Null
    /\ (chunkCall.docContent.paramHeader > 0 \/ chunkCall.docContent.paramTable > 0)
SourceHasCredentials ==
    chunkCall.sourceInfo # Null /\ chunkCall.sourceInfo.credentials # <<>>
DocHasCredentialSection ==
    chunkCall.docContent # Null /\ chunkCall.docContent.credHeader > 0

\* C29: createNodeChunks produces a parameters chunk if and only if the
\* source info has parameters or the doc text has a documented parameter
\* section.
C29_ParametersChunkIffDocumented ==
    chunkCall.result # Null =>
        ("parameters" \in KindsReturned <=> (SourceHasParameters \/ DocHasParameterSection))

\* C30: for every key and every combination of doc text and source info,
\* createNodeChunks returns 1 to 4 chunks, exactly one of them an overview,
\* no kind twice, all with the given key, and a credentials chunk only when
\* a credential type or a documented credential section exists.
C30_ChunkSetShape ==
    chunkCall.result # Null =>
        /\ Len(ChunksReturned) \in 1..4
        /\ Cardinality({ k \in 1..Len(ChunksReturned) :
                            ChunksReturned[k].chunkType = "overview" }) = 1
        /\ \A j, k \in 1..Len(ChunksReturned) :
              ChunksReturned[j].chunkType = ChunksReturned[k].chunkType => j = k
        /\ KindsReturned \subseteq { "overview", "parameters", "credentials", "examples" }
        /\ \A k \in 1..Len(ChunksReturned) : ChunksReturned[k].nodeType = chunkCall.nodeType
        /\ "credentials" \in KindsReturned =>
              (SourceHasCredentials \/ DocHasCredentialSection)

\* a doc without a credentials section and a source without credential
\* types: overview, parameters and examples, no credentials chunk
C30_Witness_NoCredentialsChunk ==
    /\ chunkCall.result # Null
    /\ Truthy(chunkCall.docContent)
    /\ chunkCall.sourceInfo # Null
    /\ ~SourceHasCredentials
    /\ ~DocHasCredentialSection
    /\ KindsReturned = { "overview", "parameters", "examples" }

\* the auxiliary connections of a node, none for a node without connections
SubNodesOf(nodeName) ==
    IF nodeName \in DOMAIN walkCall.connections
    THEN walkCall.connections[nodeName].ai
    ELSE <<>>

\* C31: every node entered by the walk contributes exactly one entry of the
\* flow description, in visit order, and the sub-node annotation of a node
\* is on that node's own entry, never on another node's.
C31_AnnotationOnOwnEntry ==
    WalkReturned =>
        /\ Len(walkCall.flowParts) = Len(walkCall.entered)
        /\ \A k \in 1..Len(walkCall.flowParts) :
              walkCall.flowParts[k]
                  = FlowEntry(walkCall.entered[k].node, SubNodesOf(walkCall.entered[k].node))

\* the entry of the errors list that stands for a template error
Prefixed(err) == [err EXCEPT !.msg = "[templates] " \o @]

\* C32: the errors list returned by runIngestion holds every error recorded
\* by the template sub-run, each prefixed with [templates], for any number
\* of template errors.
C32_EveryTemplateErrorReturned ==
    [][(pc = "awaitTemplates" /\ tpc = "done" /\ pc' = "done") =>
          \A k \in 1..Len(tResult.errors) :
              \E j \in 1..Len(result'.errors) : result'.errors[j] = Prefixed(tResult.errors[k])]_vars

\* the reply of the last call of the registry, when it was made for a type
LookedUp(call) == registry # Null /\ registry.reply # Null /\ registry.reply.call = call

\* C33: getNodeInfoDynamic returns the result of the first of the four
\* stages (static map, cache, store lookup, derived default) that has an
\* entry for the type; a static-map entry wins over cache and store, and a
\* store failure gives the derived default.
C33_FirstStageWithEntry ==
    LookedUp("getNodeInfoDynamic") =>
        LET r      == registry.reply
            cached == r.cacheBefore[r.type]
            doc    == r.rowsBefore[r.type]
        IN  /\ r.type \in DOMAIN NODE_REGISTRY => r.info = NODE_REGISTRY[r.type]
            /\ (r.type \notin DOMAIN NODE_REGISTRY /\ cached # Null) => r.info = cached
            /\ (r.type \notin DOMAIN NODE_REGISTRY /\ cached = Null /\ doc # Null
                    /\ r.out = "ok") => r.info = StoreInfo(r.type, doc)
            /\ (r.type \notin DOMAIN NODE_REGISTRY /\ cached = Null
                    /\ (doc = Null \/ r.out = "throw")) => r.info = Fallback(r.type)

\* a static type is looked up while the store holds a row for it and the
\* store query of another lookup has failed before
C33_Witness_StaticOverStore ==
    /\ LookedUp("getNodeInfoDynamic")
    /\ registry.reply.type = "n8n-nodes-base.slack"
    /\ registry.reply.rowsBefore["n8n-nodes-base.slack"] # Null
    /\ registry.reply.info.label = "Slack"
    /\ registry.reply.cacheBefore["n8n-nodes-base.notion"] = Fallback("n8n-nodes-base.notion")
    /\ registry.reply.rowsBefore["n8n-nodes-base.notion"] # Null

\* C38: after warmNodeInfoCache has completed successfully,
\* getNodeInfoCached(t) returns the store-derived info for every non-static
\* type t with an overview row in the store, whatever calls of
\* getNodeInfoDynamic(t) came before the warm-up.
C38_WarmedCacheServesStore ==
    (LookedUp("getNodeInfoCached") /\ registry.warmedAt = registry.rows) =>
        LET r == registry.reply
        IN  (r.type \notin DOMAIN NODE_REGISTRY /\ registry.rows[r.type] # Null) =>
                r.info = StoreInfo(r.type, registry.rows[r.type])

BothRunsFinished == race # Null /\ \A r \in RunIds : race[r].at = "done"

\* C34: when two overlapping ingestion runs upsert the same (nodeType,
\* chunkType) key, then once both have finished the documentation table
\* holds exactly one row for that key, under every interleaving.
C34_OneRowAfterOverlap ==
    BothRunsFinished =>
        \A k \in 1..Len(RaceChunks) : DocRowCount(nodeDocs, DocKey(RaceChunks[k])) = 1

\* C35: when two template ingestion runs overlap on a templateId, the
\* template table never holds two rows for the id, and a run whose insert
\* is rejected records an upsert error for that id and goes on with its
\* remaining records.
C35_UniqueIdUnderOverlap ==
    race # Null =>
        /\ \A k \in 1..Len(RaceRecords) :
              TplRowCount(wfTemplates, RaceRecords[k].templateId) <= 1
        /\ \A r \in RunIds :
              /\ \A id \in race[r].rejected :
                    \E k \in 1..Len(race[r].tErrors) :
                        /\ race[r].tErrors[k].msg = "Upsert failed for template"
                        /\ race[r].tErrors[k].ref = << id >>
              /\ race[r].at = "done" =>
                    /\ race[r].inserted \cup race[r].rejected
                          = { RaceRecords[k].templateId : k \in 1..Len(RaceRecords) }
                    /\ race[r].templatesProcessed = Cardinality(race[r].inserted)
                    /\ Len(race[r].tErrors) = Cardinality(race[r].rejected)

\* the insert of the first template was rejected for a run, which then
\* stored the second template
C35_Witness_RejectedThenContinued ==
    /\ BothRunsFinished
    /\ \E r \in RunIds :
          /\ race[r].rejected = { RaceRecords[1].templateId }
          /\ race[r].inserted = { RaceRecords[2].templateId }
          /\ race[r].templatesProcessed = 1

\* C36: each sub-run logs exactly once: on every path through the origin-A
\* part of runIngestion one 'github-docs' ledger write is attempted, and on
\* every path through runTemplateIngestion one 'n8n-templates' ledger write
\* is attempted, never zero and never two.
C36_OneLedgerWritePerSubRun ==
    /\ \A source \in DOMAIN hist.logCalls : hist.logCalls[source] <= 1
    /\ pc \in { "templates", "awaitTemplates", "done" } => hist.logCalls["github-docs"] = 1
    /\ tpc = "done" => hist.logCalls["n8n-templates"] = 1
    /\ Returned =>
          hist.logCalls["n8n-templates"] = (IF hist.bInvoked /\ tpc # "thrown" THEN 1 ELSE 0)

\* a run whose origin-A part completed normally and whose template sub-run
\* ended in its catch: one write attempted for each source
C36_Witness_TemplateCatchLoggedOnce ==
    /\ Returned
    /\ hist.logCalls = [source \in { "github-docs", "n8n-templates" } |-> 1]
    /\ result.chunksCreated > 0
    /\ HasError(result.errors, "[templates] Embedding request failed")

UpsertFailures(errs) == { k \in 1..Len(errs) : errs[k].msg = "Upsert failed" }

\* C37: when the upsert stage of runIngestion completes, chunksCreated is
\* the number of documentation rows this run inserted, and chunksCreated
\* plus the number of 'Upsert failed' errors is the number of chunks built;
\* templatesProcessed is the number of template rows this run inserted.
C37_CountersMatchInserts ==
    /\ pc = "log" =>
          /\ chunksCreated = hist.inserted.docs
          /\ chunksCreated + Cardinality(UpsertFailures(errors)) = Len(allChunks)
    /\ Returned => result.chunksCreated = hist.inserted.docs
    /\ tpc \in { "tLog", "done" } => tProcessed = hist.inserted.tpl
    /\ Returned => result.templatesProcessed = hist.inserted.tpl

\* the upsert loop has ended with one chunk stored and one rejected
C37_Witness_OneStoredOneFailed ==
    /\ pc = "log"
    /\ chunksCreated >= 1
    /\ Cardinality(UpsertFailures(errors)) = 1
    /\ Len(allChunks) = chunksCreated + 1

\* C39: at most one polling timer is active at any time, and a poll
\* callback of an earlier execution never stops the timer of a newer
\* execution and never sets the store's executionStatus from its result
\* once the newer execution has started.
C39_StalePollHarmless ==
    poller # Null =>
        /\ Cardinality(poller.timers) <= 1
        /\ \A stop \in poller.stops : stop[1] = stop[2]
        /\ \A set \in poller.sets : set[1] = set[2]

====
